---- MODULE Spec2Model ----
(***************************************************************************)
(* BatchTaskPool (src/batch_task_pool.py): a bounded-concurrency task pool *)
(* on one asyncio event loop.  Coroutines interleave only at the points    *)
(* where they suspend, so every action below is the code that runs between *)
(* two suspension points.  The pool's asyncio.Lock is only ever held over  *)
(* code without an await, so acquiring it never suspends.                  *)
(*                                                                         *)
(* The work items given to submit_task are inputs; each has one of the     *)
(* behaviours of Kinds.                                                    *)
(*                                                                         *)
(* CheckpointManager (src/checkpoint_manager.py) is modelled further down, *)
(* with its checkpoint file and temporary file; Spec runs the pool, CkSpec *)
(* the manager.  StatsPoolSpec is Spec with a caller of get_stats,         *)
(* BurstSpec a run without shutdown that makes one submit_task call more,  *)
(* PeakSpec a run of a pool with one slot more and more calls than twice   *)
(* its slots.  CountSpec is CkSpec with the recorded outcomes counted,     *)
(* SaveSpec the manager's saves, LoadSpec its loads among saves, TripSpec  *)
(* a save of any sets of several files and the load of a new manager;      *)
(* StatsSpec applies get_progress_stats and UpdateSpec update_progress to  *)
(* several files.  The checkpoint file holds the JSON text that json.dumps *)
(* makes of the record, and load_checkpoint parses what it finds.          *)
(* process_images_batch (src/batch_processing.py) is at the end:           *)
(* FairBatchSpec is one call of it, ResumeSpec one call after the other on *)
(* the same directory.                                                     *)
(***************************************************************************)
EXTENDS Naturals, Integers, Sequences, FiniteSets, TLC

\* ---------------------------------------------------------------- bounds
\* max_concurrent, the argument of BatchTaskPool.__init__
MaxConcurrent == 1
\* number of submit_task calls the callers make in one run
MaxTasks == 2
\* number of coroutines that call submit_task concurrently
NumSubmitters == 2
\* number of shutdown calls in one run
MaxShutdowns == 2

Submitters == 1 .. NumSubmitters
\* the submit_task calls of a run: MaxTasks, or one more in the run that
\* has two calls wait at the same time
MaxBurst == MaxTasks + 1
TaskIds == 0 .. (MaxTasks - 1)
BurstIds == 0 .. (MaxBurst - 1)
\* the submit_task calls of the run that fills a pool of more than one
\* slot and goes on
PeakTasks == MaxBurst + 2
PeakIds == 0 .. (PeakTasks - 1)

\* The behaviours of a submitted coroutine:
\*   "value"       returns a result
\*   "error"       raises an Exception
\*   "timeout_exc" raises asyncio.TimeoutError itself
\*   "self_cancel" raises asyncio.CancelledError itself
\*   "stubborn"    returns a result, and when cancelled catches the
\*                 CancelledError and carries on: to its result, or for
\*                 ever (nothing makes it end)
Kinds == {"value", "error", "timeout_exc", "self_cancel", "stubborn"}

VARIABLES
    active_tasks,     \* self.active_tasks: the ids in the in-flight registry
    sem_value,        \* self.task_semaphore._value
    sem_waiters,      \* self.task_semaphore._waiters, in FIFO order
    task_counter,     \* self.task_counter
    completed_count,  \* self.completed_count
    failed_count,     \* self.failed_count
    timeout_count,    \* self.timeout_count
    task,             \* the wrapped asyncio.Task of every task id
    sub,              \* each submitter's position in submit_task
    sd,               \* the shutdown caller's position in shutdown
    wfc,              \* the wait_for_completion caller's position
    quota,            \* the number of submit_task calls of this run
    max_concurrent    \* self.max_concurrent

\* process_images_batch (src/batch_processing.py)
VARIABLES
    orch,             \* the position of process_images_batch and its locals
    root_dir          \* the image directory: the images that are valid,
                      \* the stem of each image's name, and the stems for
                      \* which an output file <stem>.json exists

\* CheckpointManager (src/checkpoint_manager.py)
VARIABLES
    ck_file,          \* the content of the file at self.checkpoint_file
    ck_tmp,           \* the content of the temporary file next to it
    completed_files,  \* self.completed_files
    failed_files,     \* self.failed_files
    total_files,      \* self.total_files
    last_save_count,  \* self.last_save_count
    ck_lock,          \* self.lock: 0 when free, else the caller that holds it
    ck_waiters,       \* self.lock._waiters: the callers waiting, in order
    caller,           \* each caller's position in the method it is in
    ret,              \* what the step just taken returned to its caller
    ck_args,          \* the arguments of the save that wrote ck_file
    ck_foreign,       \* ck_file is a file that this code did not write
    auto_save_interval,  \* self.auto_save_interval
    ck_unsaved        \* the outcomes update_progress has recorded since the
                      \* latest save; None in the runs that do not count them

\* the state of the CheckpointManager object
manager == <<completed_files, failed_files, total_files, last_save_count>>

\* the interval and the count of outcomes, which few steps touch
tally == <<auto_save_interval, ck_unsaved>>

\* what only process_images_batch and its coroutines touch
batch == <<orch, root_dir>>

vars == <<active_tasks, sem_value, sem_waiters, task_counter, completed_count,
          failed_count, timeout_count, task, sub, sd, wfc, quota, max_concurrent,
          batch, ck_file, ck_tmp, completed_files, failed_files, total_files,
          last_save_count, ck_lock, ck_waiters, caller, ret, ck_args,
          ck_foreign, auto_save_interval, ck_unsaved>>

pool == <<active_tasks, sem_value, sem_waiters, task_counter, completed_count,
          failed_count, timeout_count, task>>

counters == <<completed_count, failed_count, timeout_count>>

\* A wrapped task that submit_task has not created yet.  kind is the
\* behaviour of its coroutine ("spent" once the task is done and the
\* coroutine is gone), comp the state of the coroutine.  stage "waiting"
\* is the wrapper suspended in asyncio.wait_for; must_cancel says that
\* Task.cancel has been called on a wrapper that has not run since.
NoTask ==
    [stage |-> "none", kind |-> "value", comp |-> "unstarted",
     must_cancel |-> FALSE, timed_out |-> FALSE, by_shutdown |-> FALSE,
     outcome |-> "none", released |-> 0]

\* ------------------------------------------------------------- semaphore
\* asyncio.Semaphore._wake_up_next: hand the slot to the first waiter that
\* has not been woken yet.
WakeUpNext(v, w) ==
    IF \E i \in 1 .. Len(w) : ~w[i].woken
    THEN LET i == CHOOSE j \in 1 .. Len(w) :
                     /\ ~w[j].woken
                     /\ \A k \in 1 .. (j - 1) : w[k].woken
         IN  [value |-> v - 1, waiters |-> [w EXCEPT ![i].woken = TRUE]]
    ELSE [value |-> v, waiters |-> w]

\* asyncio.Semaphore.release
SemRelease(v, w) == WakeUpNext(v + 1, w)

\* Mutant of SemLocked: the last slot is never given out.
SemLockedEarly(v, w) == v <= 1 \/ Len(w) > 0

\* Mutant of SemLocked: the semaphore counts as free while its value is 0.
SemLockedOffByOne(v, w) == v < 0 \/ Len(w) > 0

\* asyncio.Semaphore.locked
SemLocked(v, w) == v = 0 \/ Len(w) > 0

\* The number of slot releases so far (semaphore.release calls).
Released == LET RECURSIVE Sum(_)
                Sum(n) == IF n = 0 THEN 0
                          ELSE task[n - 1].released + Sum(n - 1)
            IN  Sum(PeakTasks)

\* A submitter that is not inside submit_task.  While a call is blocked,
\* full and rel0 record whether the registry was full when it was made and
\* how many releases had happened by then.
IdleSubmitter == [pc |-> "idle", kind |-> "value", full |-> FALSE, rel0 |-> 0]

\* sd: pc and snap are the position of the shutdown caller and its
\* tasks_to_cancel; calls counts the calls made; quiet says that no
\* submit_task call was made since the latest shutdown call began.
\* ------------------------------------------------------ CheckpointManager
\* The manager's callers are coroutines on one event loop and interleave
\* only where they suspend: at the lock, and at each aiofiles call.  Files
\* are identified by numbers.

\* number of file identifiers
NumIds == 1
\* number of coroutines that call the manager concurrently
NumCallers == 2
\* auto_save_interval, the argument of CheckpointManager.__init__
AutoSaveInterval == 1

\* number of file identifiers in StatsSpec and UpdateSpec
MaxStatIds == 3
\* number of file identifiers in TripSpec
MaxTripIds == 4
\* largest total_files in StatsSpec
MaxTotal == 10

Ids == 1 .. NumIds
StatIds == 1 .. MaxStatIds
TripIds == 1 .. MaxTripIds
Callers == 1 .. NumCallers
\* the default of save_checkpoint's total_files argument
None == 0 - 1
\* the total_files a caller passes: the number of files of the run
TotalArgs == {NumIds}
\* the status strings: the two the code knows and any other
Statuses == {"completed", "failed", "pending"}

Max(a, b) == IF a > b THEN a ELSE b

\* The quotient a / b of Python, b > 0, kept exact: the fraction in lowest
\* terms.  (The code's float is the nearest double to it.)
Quotient(a, b) ==
    LET RECURSIVE GCD(_, _)
        GCD(m, n) == IF n = 0 THEN m ELSE GCD(n, m % n)
        g == GCD(a, b)
    IN  <<a \div g, b \div g>>

\* q * k for a fraction q
Times(q, k) == Quotient(q[1] * k, q[2])

\* The count of outcomes becomes n in this step, where it is kept; beyond
\* the interval it is not counted on.
Counted(n) ==
    /\ ck_unsaved' = IF ck_unsaved = None THEN None ELSE n
    /\ UNCHANGED auto_save_interval

\* list(a set): the entries in some order; what is read back does not
\* depend on it
RECURSIVE SetToSeq(_)
SetToSeq(S) ==
    IF S = {} THEN <<>>
    ELSE LET m == CHOOSE x \in S : \A y \in S : x <= y
         IN  <<m>> \o SetToSeq(S \ {m})

\* SeqToSet that loses the first entry of the list
SeqToSetDropsHead(q) == {q[i] : i \in DOMAIN q \ {1}}

\* set(a list)
SeqToSet(q) == {q[i] : i \in DOMAIN q}

\* ------------------------------------------------------------------ JSON
\* A JSON text is the sequence of its tokens (the white space of indent=2
\* is left out): the punctuation, null, string literals, and numbers digit
\* by digit.  The path of file i is the string PathNames[i].
Digits == <<"0", "1", "2", "3", "4", "5", "6", "7", "8", "9">>
PathNames == <<"\"1.jpg\"", "\"2.jpg\"", "\"3.jpg\"", "\"4.jpg\"",
               "\"5.jpg\"", "\"6.jpg\"">>
StringLiterals ==
    {PathNames[i] : i \in DOMAIN PathNames}
       \cup {"\"completed\"", "\"failed\"", "\"total_files\"", "\"version\"", "\"1.0\""}

\* The values of Python that JSON knows: None (JNull), an int (t "num",
\* n), a str (t "str", s), a list (t "list", items); a dict (t "dict") is
\* the list of its keys and that of their values.
JNull == [t |-> "null", n |-> 0, s |-> "", items |-> <<>>, keys |-> <<>>]

\* json.dumps(v); NumText(n) is the decimal digits of n >= 0
RECURSIVE Dumps(_)
Dumps(v) ==
    LET RECURSIVE NumText(_)
        NumText(n) ==
            IF n < 10 THEN <<Digits[n + 1]>>
            ELSE NumText(n \div 10) \o <<Digits[(n % 10) + 1]>>
        RECURSIVE Items(_)
        Items(q) ==
            IF q = <<>> THEN <<>>
            ELSE Dumps(Head(q))
                   \o (IF Len(q) > 1 THEN <<",">> \o Items(Tail(q))
                       ELSE <<>>)
        RECURSIVE Members(_, _)
        Members(k, q) ==
            IF q = <<>> THEN <<>>
            ELSE <<Head(k), ":">> \o Dumps(Head(q))
                   \o (IF Len(q) > 1
                       THEN <<",">> \o Members(Tail(k), Tail(q))
                       ELSE <<>>)
    IN  CASE v.t = "null" -> <<"null">>
          [] v.t = "num" -> NumText(v.n)
          [] v.t = "str" -> <<v.s>>
          [] v.t = "list" -> <<"[">> \o Items(v.items) \o <<"]">>
          [] v.t = "dict" -> <<"{">> \o Members(v.keys, v.items) \o <<"}">>

\* The JSON value that starts at token i of x and the position after it;
\* ok is false where json.loads raises JSONDecodeError.  A number is a run
\* of digits, with no leading zero.  The value r of an item or of a member
\* is the one element of a set, so that it is worked out once.
NoValue == [ok |-> FALSE, val |-> JNull, next |-> 0]
RECURSIVE ParseValue(_, _)
ParseValue(x, i) ==
    LET DigitValue(d) == (CHOOSE k \in DOMAIN Digits : Digits[k] = d) - 1
        IsDigit(j) == j <= Len(x) /\ \E k \in DOMAIN Digits : Digits[k] = x[j]
        RECURSIVE Number(_, _)
        Number(j, n) ==
            IF IsDigit(j) THEN Number(j + 1, n * 10 + DigitValue(x[j]))
            ELSE [ok |-> TRUE, val |-> [JNull EXCEPT !.t = "num", !.n = n],
                  next |-> j]
        RECURSIVE Items(_, _)
        Items(j, acc) ==
            CHOOSE out \in
              {IF ~r.ok \/ r.next > Len(x) THEN NoValue
               ELSE IF x[r.next] = ","
               THEN Items(r.next + 1, Append(acc, r.val))
               ELSE IF x[r.next] = "]"
               THEN [ok |-> TRUE,
                     val |-> [JNull EXCEPT !.t = "list",
                                           !.items = Append(acc, r.val)],
                     next |-> r.next + 1]
               ELSE NoValue : r \in {ParseValue(x, j)}} : TRUE
        RECURSIVE Members(_, _, _)
        Members(j, k, acc) ==
            IF j + 1 > Len(x) \/ x[j] \notin StringLiterals \/ x[j + 1] # ":"
            THEN NoValue
            ELSE CHOOSE out \in
                   {IF ~r.ok \/ r.next > Len(x) THEN NoValue
                    ELSE IF x[r.next] = ","
                    THEN Members(r.next + 1, Append(k, x[j]),
                                 Append(acc, r.val))
                    ELSE IF x[r.next] = "}"
                    THEN [ok |-> TRUE,
                          val |-> [JNull EXCEPT !.t = "dict",
                                                !.keys = Append(k, x[j]),
                                                !.items = Append(acc, r.val)],
                          next |-> r.next + 1]
                    ELSE NoValue : r \in {ParseValue(x, j + 2)}} : TRUE
    IN  IF i > Len(x) THEN NoValue
        ELSE CASE x[i] = "null" ->
                    [ok |-> TRUE, val |-> JNull, next |-> i + 1]
               [] IsDigit(i) ->
                    IF x[i] = "0" /\ IsDigit(i + 1) THEN NoValue
                    ELSE Number(i, 0)
               [] x[i] \in StringLiterals ->
                    [ok |-> TRUE, val |-> [JNull EXCEPT !.t = "str", !.s = x[i]],
                     next |-> i + 1]
               [] x[i] = "[" ->
                    IF i < Len(x) /\ x[i + 1] = "]"
                    THEN [ok |-> TRUE, val |-> [JNull EXCEPT !.t = "list"],
                          next |-> i + 2]
                    ELSE Items(i + 1, <<>>)
               [] x[i] = "{" ->
                    IF i < Len(x) /\ x[i + 1] = "}"
                    THEN [ok |-> TRUE, val |-> [JNull EXCEPT !.t = "dict"],
                          next |-> i + 2]
                    ELSE Members(i + 1, <<>>, <<>>)
               [] OTHER -> NoValue

\* json.loads(x): the text is one value and nothing after it
Loads(x) ==
    CHOOSE out \in {IF r.ok /\ r.next = Len(x) + 1 THEN r ELSE NoValue :
                       r \in {ParseValue(x, 1)}} : TRUE

\* A file: absent, or its content.  A temporary file left by a run that
\* ended is "stale": no code reads it.
Absent == [kind |-> "absent", text |-> <<>>]
\* the file that open(..., 'w') has made or emptied and nothing is written
\* to yet
Partial == [kind |-> "text", text |-> <<>>]
Stale == [kind |-> "stale", text |-> <<>>]

\* The state dict of save_checkpoint, without 'start_time' and
\* 'last_update', which come from the clock.
StateOf(c, f, n) ==
    LET PathList(q) ==
            [JNull EXCEPT
               !.t = "list",
               !.items = [i \in DOMAIN q |->
                            [JNull EXCEPT !.t = "str", !.s = PathNames[q[i]]]]]
    IN  [JNull EXCEPT
           !.t = "dict",
           !.keys = <<"\"completed\"", "\"failed\"", "\"total_files\"",
                      "\"version\"">>,
           !.items = <<PathList(SetToSeq(c)), PathList(SetToSeq(f)),
                       IF n = None THEN JNull
                       ELSE [JNull EXCEPT !.t = "num", !.n = n],
                       [JNull EXCEPT !.t = "str", !.s = "\"1.0\""]>>]

\* the file that holds json.dumps(state)
Written(state) == [kind |-> "text", text |-> Dumps(state)]

\* Files that an earlier run or somebody else left: a document cut off,
\* an object whose "failed" is a number, a record without "total_files".
Truncated == [kind |-> "text", text |-> <<"{", "\"completed\"", ":", "[">>]

\* What a run may find at self.checkpoint_file: nothing, or one of these.
InitialFiles ==
    LET FailedNoList ==
            [kind |-> "text",
             text |-> <<"{", "\"completed\"", ":", "[", PathNames[1], "]", ",",
                        "\"failed\"", ":", "0", ",",
                        "\"total_files\"", ":", "0", "}">>]
        NoTotalFiles ==
            [kind |-> "text",
             text |-> <<"{", "\"completed\"", ":", "[", PathNames[1], "]", ",",
                        "\"failed\"", ":", "[", "]", "}">>]
    IN  {Absent, Truncated, FailedNoList, NoTotalFiles}

\* the file holds a JSON object
IsJson(d) ==
    /\ d.kind = "text"
    /\ \E r \in {Loads(d.text)} : r.ok /\ r.val.t = "dict"

NoArgs == [valid |-> FALSE, completed |-> {}, failed |-> {}, total_files |-> 0]
\* ret: a call that ends without a value or an error leaves NoRet.
\* lost: the save that was cut off took away the file it had found.
\* was: where the file of an update_progress call was before the call;
\* whether load_checkpoint found the manager as __init__ leaves it; the
\* step at which save_checkpoint failed.
\* cleaned: no os.remove of the temporary file has failed in the except
\* branch of the save that raised.
NoRet == [op |-> "none", kind |-> "none", completed |-> {}, failed |-> {},
          id |-> 0, force |-> FALSE, result |-> FALSE, lost |-> FALSE,
          status |-> "none", was |-> "none", cleaned |-> TRUE]
IdleCaller == [pc |-> "idle", op |-> "none", args |-> NoArgs,
               state |-> Absent, count |-> 0, prev |-> Absent]

\* CheckpointManager.__init__
ManagerInit ==
    /\ completed_files = {}
    /\ failed_files = {}
    /\ total_files = 0
    /\ last_save_count = 0
    /\ ck_lock = 0
    /\ ck_waiters = <<>>
    /\ caller = [p \in Callers |-> IdleCaller]
    /\ ret = NoRet

\* the manager is made with the interval AutoSaveInterval; the outcomes
\* are not counted
Uncounted ==
    /\ auto_save_interval = AutoSaveInterval
    /\ ck_unsaved = None

\* no checkpoint file yet
NoCheckpoint ==
    /\ ck_file = Absent
    /\ ck_tmp = Absent
    /\ ck_args = NoArgs
    /\ ck_foreign = FALSE

\* BatchTaskPool.__init__
PoolMade ==
    /\ active_tasks = {}
    /\ sem_value = max_concurrent
    /\ sem_waiters = <<>>
    /\ task_counter = 0
    /\ completed_count = 0
    /\ failed_count = 0
    /\ timeout_count = 0
    /\ task = [t \in PeakIds |-> NoTask]
    /\ sub = [s \in Submitters |-> IdleSubmitter]
    /\ sd = [pc |-> "idle", snap |-> {}, calls |-> 0, quiet |-> FALSE]
    /\ wfc = "idle"

\* process_images_batch has not been called.  pc is where it is; force is
\* force_rerun, todo is tasks_to_process, results the list results,
\* collected the task ids popped from pending_tasks; saving holds the tasks
\* whose coroutine has handed the writing of its output file to a worker
\* thread that has not written it.
IdleOrch == [pc |-> "idle", force |-> FALSE, todo |-> <<>>, results |-> <<>>,
             collected |-> {}, saving |-> {}]

\* no batch run: the pool and the manager are used by themselves
NoBatch ==
    /\ orch = IdleOrch
    /\ root_dir = [valid |-> {}, outputs |-> {}, stem |-> <<>>]

\* the pool of a run of MaxTasks submit_task calls
PoolInit ==
    /\ max_concurrent = MaxConcurrent
    /\ PoolMade
    /\ quota = MaxTasks
    /\ NoBatch

Init == PoolInit /\ ManagerInit /\ NoCheckpoint /\ Uncounted

\* A step of the pool: it leaves the manager alone; what get_stats
\* returned before it is with its caller by now.
PoolStep ==
    /\ ret' = NoRet
    /\ UNCHANGED <<quota, max_concurrent, batch>>
    /\ UNCHANGED <<ck_file, ck_tmp, manager, ck_lock, ck_waiters, caller, ck_args,
                   ck_foreign, tally>>

\* the caller has what the last step returned and goes on
Return ==
    /\ ret # NoRet
    /\ ret' = NoRet
    /\ UNCHANGED <<pool, sub, sd, wfc, quota, max_concurrent, batch, manager, ck_file, ck_tmp,
                   ck_lock, ck_waiters, caller, ck_args, ck_foreign, tally>>

\* ----------------------------------------------------------- submit_task
\* Mutant of Register: the counter is not incremented.
RegisterSameId(k) ==
    /\ task' = [task EXCEPT ![task_counter] =
                    [NoTask EXCEPT !.stage = "created", !.kind = k]]
    /\ task_counter' = task_counter
    /\ active_tasks' = active_tasks \cup {task_counter}

\* submit_task after the semaphore is held: take the next id, create the
\* wrapped task and put it into the registry.
Register(k) ==
    /\ task' = [task EXCEPT ![task_counter] =
                    [NoTask EXCEPT !.stage = "created", !.kind = k]]
    /\ task_counter' = task_counter + 1
    /\ active_tasks' = active_tasks \cup {task_counter}

\* Calls of submit_task that have not got their id yet.
Pending == Cardinality({s \in Submitters : sub[s].pc = "blocked"})

\* Submitter s makes the next submit_task call: the callers are
\* interchangeable, so of those not inside a call the first one calls.
NextCaller(s) ==
    /\ sub[s].pc = "idle"
    /\ \A r \in Submitters : r < s => sub[r].pc # "idle"
    /\ task_counter + Pending < quota

\* submit_task is called; the slot is free and nobody waits: the call runs
\* to its return without suspending.
SubmitTaskFree(s, k) ==
    /\ NextCaller(s)
    /\ ~SemLocked(sem_value, sem_waiters)
    /\ sem_value' = sem_value - 1
    /\ Register(k)
    /\ sd' = [sd EXCEPT !.quiet = FALSE]
    /\ UNCHANGED <<sem_waiters, counters, sub, wfc>>
    /\ PoolStep

\* submit_task is called; no slot can be taken: the call suspends in
\* Semaphore.acquire.
SubmitTaskBlock(s, k) ==
    /\ NextCaller(s)
    /\ SemLocked(sem_value, sem_waiters)
    /\ sem_waiters' = Append(sem_waiters, [s |-> s, woken |-> FALSE])
    /\ sub' = [sub EXCEPT ![s] =
                   [pc |-> "blocked", kind |-> k,
                    full |-> Cardinality(active_tasks) = max_concurrent,
                    rel0 |-> Released]]
    /\ sd' = [sd EXCEPT !.quiet = FALSE]
    /\ UNCHANGED <<active_tasks, sem_value, task_counter, counters, task,
                   wfc>>
    /\ PoolStep

\* A woken submit_task call resumes in Semaphore.acquire and runs to its
\* return.  Woken callers resume in the order they were woken.
SubmitTaskResume(s) ==
    /\ sub[s].pc = "blocked"
    /\ Len(sem_waiters) > 0
    /\ sem_waiters[1].s = s
    /\ sem_waiters[1].woken
    /\ LET rest == Tail(sem_waiters)
           r == IF sem_value > 0 THEN WakeUpNext(sem_value, rest)
                ELSE [value |-> sem_value, waiters |-> rest]
       IN  /\ sem_value' = r.value
           /\ sem_waiters' = r.waiters
    /\ Register(sub[s].kind)
    /\ sub' = [sub EXCEPT ![s] = IdleSubmitter]
    /\ UNCHANGED <<counters, sd, wfc>>
    /\ PoolStep

\* ------------------------------------------------- _execute_with_timeout
\* The outcome of the wrapped task when asyncio.wait_for hands over what the
\* coroutine of kind k did by itself: the try body and the two except
\* clauses of _execute_with_timeout; a CancelledError is an exception that
\* neither clause catches, so it ends the wrapped task cancelled.
ResultOf(k) ==
    CASE k = "error"       -> "task_error"
      [] k = "timeout_exc" -> "timeout_error"
      [] k = "self_cancel" -> "cancelled"
      [] OTHER             -> "success"

\* The outcome when wait_for has cancelled the coroutine and waited for it
\* to end, the coroutine having ended in state c ("cancelled" or "returned"):
\* after a timeout wait_for returns the coroutine's result if it has one and
\* raises TimeoutError otherwise; cancelled from outside it re-raises the
\* CancelledError, which no except clause of the wrapper catches.
ResultAfterCancel(timed_out, c) ==
    IF timed_out
    THEN IF c = "cancelled" THEN "timeout_error" ELSE "success"
    ELSE "cancelled"

\* Mutant of CleanupTask: the slot is released, the entry stays.
CleanupTaskKeepsEntry(t) ==
    /\ active_tasks' = active_tasks
    /\ LET r == SemRelease(sem_value, sem_waiters)
       IN  /\ sem_value' = r.value
           /\ sem_waiters' = r.waiters

\* _cleanup_task: drop the id from the registry, release the slot.
CleanupTask(t) ==
    /\ active_tasks' = active_tasks \ {t}
    /\ LET r == SemRelease(sem_value, sem_waiters)
       IN  /\ sem_value' = r.value
           /\ sem_waiters' = r.waiters

\* The wrapper leaves its try statement with outcome o, the coroutine being
\* in state c: the counters, then the finally clause.
Finish(t, o, c) ==
    /\ task' = [task EXCEPT ![t] = [@ EXCEPT !.stage = "done", !.outcome = o,
                                             !.comp = c, !.kind = "spent",
                                             !.must_cancel = FALSE,
                                             !.released = @ + 1]]
    /\ completed_count' = completed_count + (IF o = "success" THEN 1 ELSE 0)
    /\ failed_count' = failed_count +
           (IF o \in {"task_error", "timeout_error"} THEN 1 ELSE 0)
    /\ timeout_count' = timeout_count + (IF o = "timeout_error" THEN 1 ELSE 0)
    /\ CleanupTask(t)
    /\ UNCHANGED <<task_counter, sub, sd, wfc>>
    /\ PoolStep

\* The first step of a wrapped task: it runs up to the await of wait_for,
\* which starts the coroutine.  In a task that was cancelled before it ran
\* the CancelledError is raised at the start of the coroutine, before its
\* try statement is entered.
TaskStart(t) ==
    /\ task[t].stage = "created"
    /\ task' = [task EXCEPT ![t] =
                    IF @.must_cancel
                    THEN [@ EXCEPT !.stage = "done", !.outcome = "cancelled",
                                   !.kind = "spent", !.must_cancel = FALSE]
                    ELSE [@ EXCEPT !.stage = "waiting", !.comp = "running"]]
    /\ UNCHANGED <<active_tasks, sem_value, sem_waiters, task_counter,
                   counters, sub, sd, wfc>>
    /\ PoolStep

\* The coroutine ends by itself (returns or raises) while wait_for waits
\* for it: the inner task is done (cancelled, if what it raised is a
\* CancelledError), the wrapper is due to resume.
CompEnd(t) ==
    /\ task[t].stage = "waiting"
    /\ task[t].comp = "running"
    /\ task' = [task EXCEPT ![t].comp =
                    CASE task[t].kind \in {"error", "timeout_exc"} -> "raised"
                      [] task[t].kind = "self_cancel" -> "cancelled"
                      [] OTHER -> "returned"]
    /\ UNCHANGED <<active_tasks, sem_value, sem_waiters, task_counter,
                   counters, sub, sd, wfc>>
    /\ PoolStep

\* The wrapper resumes in wait_for and finds the coroutine done: wait_for
\* hands over what the coroutine did, also when the wrapper has been
\* cancelled since the coroutine ended or while it was about to ("if
\* fut.done(): return fut.result()" in the CancelledError branch too).
WrapperResume(t) ==
    /\ task[t].stage = "waiting"
    /\ task[t].comp \in {"returned", "raised", "cancelled"}
    /\ Finish(t, ResultOf(task[t].kind), task[t].comp)

\* The wrapper, cancelled while it waited in wait_for, resumes with the
\* CancelledError and finds the coroutine not done: wait_for cancels the
\* coroutine and waits for it to end.
WrapperCancelled(t) ==
    /\ task[t].stage = "waiting"
    /\ task[t].comp = "running"
    /\ task[t].must_cancel
    /\ task' = [task EXCEPT ![t] = [@ EXCEPT !.stage = "cancelling",
                                             !.comp = "cancel_requested",
                                             !.must_cancel = FALSE]]
    /\ UNCHANGED <<active_tasks, sem_value, sem_waiters, task_counter,
                   counters, sub, sd, wfc>>
    /\ PoolStep

\* The timeout of wait_for elapses and the wrapper resumes while the
\* coroutine runs: wait_for cancels the coroutine and waits for it to end.
\* (A coroutine that ends after the timer and before the wrapper resumes
\* is CompEnd; a wrapper cancelled by then resumes with the CancelledError.)
Timeout(t) ==
    /\ task[t].stage = "waiting"
    /\ task[t].comp = "running"
    /\ ~task[t].must_cancel
    /\ task' = [task EXCEPT ![t] = [@ EXCEPT !.stage = "cancelling",
                                             !.comp = "cancel_requested",
                                             !.timed_out = TRUE]]
    /\ UNCHANGED <<active_tasks, sem_value, sem_waiters, task_counter,
                   counters, sub, sd, wfc>>
    /\ PoolStep

\* The cancelled coroutine ends with CancelledError while wait_for waits
\* for it: the inner task is done, the wrapper is due to resume.
CompCancelled(t) ==
    /\ task[t].stage = "cancelling"
    /\ task[t].comp = "cancel_requested"
    /\ task[t].kind # "stubborn"
    /\ task' = [task EXCEPT ![t].comp = "cancelled"]
    /\ UNCHANGED <<active_tasks, sem_value, sem_waiters, task_counter,
                   counters, sub, sd, wfc>>
    /\ PoolStep

\* The cancelled coroutine catches the CancelledError and carries on.
CompIgnoresCancel(t) ==
    /\ task[t].stage = "cancelling"
    /\ task[t].comp = "cancel_requested"
    /\ task[t].kind = "stubborn"
    /\ task' = [task EXCEPT ![t].comp = "ignoring"]
    /\ UNCHANGED <<active_tasks, sem_value, sem_waiters, task_counter,
                   counters, sub, sd, wfc>>
    /\ PoolStep

\* The coroutine that carried on returns its result while wait_for waits
\* for it: the inner task is done, the wrapper is due to resume.  Whether
\* and when this happens is up to the coroutine.
CompEndLate(t) ==
    /\ task[t].stage = "cancelling"
    /\ task[t].comp = "ignoring"
    /\ task' = [task EXCEPT ![t].comp = "returned"]
    /\ UNCHANGED <<active_tasks, sem_value, sem_waiters, task_counter,
                   counters, sub, sd, wfc>>
    /\ PoolStep

\* The wrapper resumes in wait_for, which has waited for the coroutine it
\* cancelled to end: wait_for returns or raises, the wrapper leaves its try
\* statement.
WrapperResumeLate(t) ==
    /\ task[t].stage = "cancelling"
    /\ task[t].comp \in {"cancelled", "returned"}
    /\ Finish(t, ResultAfterCancel(task[t].timed_out, task[t].comp),
              task[t].comp)

\* A wrapper cancelled while wait_for was waiting for the cancelled
\* coroutine, or before it has resumed from that wait: the CancelledError
\* leaves wait_for and the wrapper's try statement through the finally
\* clause.
WrapperUnwind(t) ==
    /\ task[t].stage = "unwinding"
    /\ Finish(t, "cancelled", task[t].comp)

\* ------------------------------------------------------------- shutdown
\* asyncio.Task.cancel on the wrapped task rec.  It cancels what the
\* wrapper waits for: a wrapper that has not started or that waits in
\* wait_for gets the CancelledError when it runs next; the coroutine is
\* cancelled only then, by wait_for.  A wrapper that already waits for the
\* cancelled coroutine to end leaves wait_for with the CancelledError, also
\* when that coroutine has ended and the wrapper has not resumed yet; a
\* coroutine that has not ended is left to itself.
CancelTask(rec) ==
    CASE rec.stage \in {"created", "waiting"} ->
             [rec EXCEPT !.must_cancel = TRUE, !.by_shutdown = TRUE]
      [] rec.stage = "cancelling" ->
             [rec EXCEPT !.stage = "unwinding", !.kind = "spent",
                         !.comp = IF @ \in {"cancelled", "returned"} THEN @
                                  ELSE "abandoned",
                         !.by_shutdown = TRUE]
      [] OTHER -> rec

\* shutdown up to its await: the snapshot of the registry under the lock and
\* the cancel calls; with an empty snapshot shutdown returns at once.
ShutdownStart ==
    /\ sd.pc = "idle"
    /\ sd.calls < MaxShutdowns
    /\ task' = [t \in PeakIds |->
                    IF t \in active_tasks THEN CancelTask(task[t])
                    ELSE task[t]]
    /\ sd' = [pc |-> IF active_tasks = {} THEN "idle" ELSE "gather",
              snap |-> active_tasks, calls |-> sd.calls + 1, quiet |-> TRUE]
    /\ UNCHANGED <<active_tasks, sem_value, sem_waiters, task_counter,
                   counters, sub, wfc>>
    /\ PoolStep

\* asyncio.gather over the snapshot is done: shutdown returns.
ShutdownReturn ==
    /\ sd.pc = "gather"
    /\ \A t \in sd.snap : task[t].stage = "done"
    /\ sd' = [sd EXCEPT !.pc = "idle", !.snap = {}]
    /\ UNCHANGED <<pool, sub, wfc>>
    /\ PoolStep

\* --------------------------------------------------- wait_for_completion
\* One round of the loop of wait_for_completion: the count under the lock,
\* then break or sleep.
WaitForCompletionCall ==
    /\ wfc = "idle"
    /\ wfc' = IF active_tasks = {} THEN "returned" ELSE "sleeping"
    /\ UNCHANGED <<pool, sub, sd>>
    /\ PoolStep

WaitForCompletionPoll ==
    /\ wfc = "sleeping"
    /\ wfc' = IF active_tasks = {} THEN "returned" ELSE "sleeping"
    /\ UNCHANGED <<pool, sub, sd>>
    /\ PoolStep

\* -------------------------------------------------------------- get_stats
\* GetStats that divides by task_counter itself
GetStatsPlainDivision ==
    [max_concurrent |-> max_concurrent,
     active_tasks |-> Cardinality(active_tasks),
     available_slots |-> sem_value,
     total_submitted |-> task_counter,
     completed |-> completed_count,
     failed |-> failed_count,
     timeout |-> timeout_count,
     success_rate |->
         IF task_counter = 0 THEN <<0, 0>>
         ELSE Times(Quotient(completed_count, task_counter), 100)]

\* the dict get_stats returns
GetStats ==
    [max_concurrent |-> max_concurrent,
     active_tasks |-> Cardinality(active_tasks),
     available_slots |-> sem_value,
     total_submitted |-> task_counter,
     completed |-> completed_count,
     failed |-> failed_count,
     timeout |-> timeout_count,
     success_rate |->
         Times(Quotient(completed_count, Max(task_counter, 1)), 100)]

\* GetStatsCall that takes the finished tasks out of the registry
GetStatsCallPrunes ==
    /\ ret' = [op |-> "get_stats", kind |-> "stats", stats |-> GetStats]
                 @@ NoRet
    /\ active_tasks' = {t \in active_tasks : task[t].stage # "done"}
    /\ UNCHANGED <<sem_value, sem_waiters, task_counter, counters, task,
                   sub, sd, wfc, quota, max_concurrent, batch>>
    /\ UNCHANGED <<ck_file, ck_tmp, manager, ck_lock, ck_waiters, caller, ck_args,
                   ck_foreign, tally>>

\* a caller asks get_stats(): it reads the fields, with no lock and no
\* await, in whatever state the pool is
GetStatsCall ==
    /\ ret' = [op |-> "get_stats", kind |-> "stats", stats |-> GetStats]
                 @@ NoRet
    /\ UNCHANGED <<pool, sub, sd, wfc, quota, max_concurrent, batch>>
    /\ UNCHANGED <<ck_file, ck_tmp, manager, ck_lock, ck_waiters, caller, ck_args,
                   ck_foreign, tally>>

Next ==
    \/ \E s \in Submitters, k \in Kinds : SubmitTaskFree(s, k)
    \/ \E s \in Submitters, k \in Kinds : SubmitTaskBlock(s, k)
    \/ \E s \in Submitters : SubmitTaskResume(s)
    \/ \E t \in TaskIds : TaskStart(t)
    \/ \E t \in TaskIds : CompEnd(t)
    \/ \E t \in TaskIds : WrapperResume(t)
    \/ \E t \in TaskIds : WrapperCancelled(t)
    \/ \E t \in TaskIds : Timeout(t)
    \/ \E t \in TaskIds : CompCancelled(t)
    \/ \E t \in TaskIds : CompIgnoresCancel(t)
    \/ \E t \in TaskIds : CompEndLate(t)
    \/ \E t \in TaskIds : WrapperResumeLate(t)
    \/ \E t \in TaskIds : WrapperUnwind(t)
    \/ ShutdownStart
    \/ ShutdownReturn

Spec == Init /\ [][Next]_vars

\* The event loop runs every callback that is ready: a timer that is due, a
\* wrapper whose future is done, a coroutine that has been cancelled.  A
\* coroutine that runs ends or runs into the timeout of wait_for; one that
\* has swallowed its cancellation ends if and when it likes (no fairness
\* for CompEndLate).  The callers are free to call or not.
Fairness ==
    /\ \A s \in Submitters : WF_vars(SubmitTaskResume(s))
    /\ \A t \in TaskIds :
           /\ WF_vars(TaskStart(t))
           /\ WF_vars(CompEnd(t) \/ Timeout(t))
           /\ WF_vars(WrapperCancelled(t))
           /\ WF_vars(WrapperResume(t))
           /\ WF_vars(CompCancelled(t))
           /\ WF_vars(CompIgnoresCancel(t))
           /\ WF_vars(WrapperResumeLate(t))
           /\ WF_vars(WrapperUnwind(t))
    /\ WF_vars(ShutdownReturn)

FairSpec == Spec /\ Fairness

\* the pool with a caller of wait_for_completion, whose sleep of 0.1 s ends
WaitNext ==
    \/ Next
    \/ WaitForCompletionCall
    \/ WaitForCompletionPoll

FairWaitSpec ==
    Init /\ [][WaitNext]_vars /\ Fairness /\ WF_vars(WaitForCompletionPoll)

\* the pool with a caller that asks get_stats between its steps
StatsPoolNext == Next \/ GetStatsCall

StatsPoolSpec == Init /\ [][StatsPoolNext]_vars

\* A run of MaxBurst submit_task calls with no shutdown: with one slot
\* taken, two calls can wait for a slot at the same time.
BurstInit ==
    /\ max_concurrent = MaxConcurrent
    /\ PoolMade
    /\ quota = MaxBurst
    /\ NoBatch
    /\ ManagerInit /\ NoCheckpoint /\ Uncounted

BurstNext ==
    \/ \E s \in Submitters, k \in Kinds : SubmitTaskFree(s, k)
    \/ \E s \in Submitters, k \in Kinds : SubmitTaskBlock(s, k)
    \/ \E s \in Submitters : SubmitTaskResume(s)
    \/ \E t \in BurstIds : TaskStart(t)
    \/ \E t \in BurstIds : CompEnd(t)
    \/ \E t \in BurstIds : WrapperResume(t)
    \/ \E t \in BurstIds : Timeout(t)
    \/ \E t \in BurstIds : CompCancelled(t)
    \/ \E t \in BurstIds : CompIgnoresCancel(t)
    \/ \E t \in BurstIds : CompEndLate(t)
    \/ \E t \in BurstIds : WrapperResumeLate(t)

BurstSpec == BurstInit /\ [][BurstNext]_vars

\* A pool of more than one slot and a run of PeakTasks submit_task calls,
\* more than twice the slots at the least, of coroutines that run until
\* they return ("value") or raise ("error"): no timeout elapses, nobody
\* calls shutdown.
PeakInit ==
    /\ max_concurrent = MaxConcurrent + 1
    /\ PoolMade
    /\ quota = PeakTasks
    /\ NoBatch
    /\ ManagerInit /\ NoCheckpoint /\ Uncounted

PeakNext ==
    \/ \E s \in Submitters, k \in {"value", "error"} : SubmitTaskFree(s, k)
    \/ \E s \in Submitters, k \in {"value", "error"} : SubmitTaskBlock(s, k)
    \/ \E s \in Submitters : SubmitTaskResume(s)
    \/ \E t \in PeakIds : TaskStart(t)
    \/ \E t \in PeakIds : CompEnd(t)
    \/ \E t \in PeakIds : WrapperResume(t)

PeakSpec == PeakInit /\ [][PeakNext]_vars

\* ------------------------------------------------------------ properties
Done(t) == task[t].stage = "done"
Blocked(s) == sub[s].pc = "blocked"

\* The submit_task calls that were handed a slot and have not resumed yet.
Handed == {i \in 1 .. Len(sem_waiters) : sem_waiters[i].woken}

\* C1: the number of in-flight tasks (entries of active_tasks) never exceeds
\* the capacity, however many submit_task calls are waiting.
C1_InFlightBounded == Cardinality(active_tasks) <= max_concurrent

\* C1 witness: the registry is full while a submit_task call waits.
C1_Witness ==
    /\ Cardinality(active_tasks) = max_concurrent
    /\ \E s \in Submitters : Blocked(s)

\* C2: every slot acquired by submit_task is released exactly once when its
\* task ends (success, error, timeout or cancellation), never zero times and
\* never twice; the semaphore value never exceeds the capacity and is back
\* at the capacity whenever no task is in flight and no submit_task call
\* holds a slot.
C2_SlotReleasedExactlyOnce ==
    /\ \A t \in TaskIds : task[t].released = (IF Done(t) THEN 1 ELSE 0)
    /\ sem_value <= max_concurrent
    /\ (active_tasks = {} /\ Handed = {}) => sem_value = max_concurrent

\* C3: every handle returned by submit_task eventually becomes done, with
\* exactly one outcome: success, task_error, timeout_error or, only when
\* shutdown cancelled it, cancellation; once done it never changes.  (A
\* handle stays returned and a done one stays done, so "every handle
\* eventually becomes done" is: again and again every handle returned so far
\* is done.)
C3_ExactlyOneOutcome ==
    /\ [](\A t \in TaskIds :
            /\ Done(t) =>
                 /\ task[t].outcome \in
                        {"success", "task_error", "timeout_error", "cancelled"}
                 /\ task[t].outcome = "cancelled" => task[t].by_shutdown
            /\ ~Done(t) => task[t].outcome = "none")
    /\ [][\A t \in TaskIds : Done(t) => task'[t] = task[t]]_vars
    /\ []<>(\A t \in TaskIds : task[t].stage # "none" => Done(t))

\* C4: a task whose coroutine had not finished when the timeout elapsed never
\* ends as success, whatever the coroutine produces afterwards; unless
\* shutdown cancelled it, it ends as timeout_error; the completed counter
\* counts only tasks that did not time out.
C4_TimeoutPrecedence ==
    /\ \A t \in TaskIds :
          task[t].timed_out =>
              /\ task[t].outcome # "success"
              /\ (Done(t) /\ ~task[t].by_shutdown) =>
                     task[t].outcome = "timeout_error"
    /\ completed_count =
           Cardinality({t \in TaskIds : /\ task[t].outcome = "success"
                                        /\ ~task[t].timed_out})

\* C5: once the timeout of a task has elapsed, a coroutine that does not
\* observe the cancellation does not hold the slot: while it carries on, the
\* task is out of the registry and its slot is released.
C5_TimeoutReleasesSlot ==
    \A t \in TaskIds :
        (task[t].timed_out /\ task[t].comp = "ignoring") =>
            /\ t \notin active_tasks
            /\ task[t].released = 1

\* C6: a coroutine that raises an error makes its handle resolve to a
\* task_error record (not to an exception), counted as failed and not as
\* timed out, and its slot is released so that the pool keeps admitting.
C6_ErrorCaptured ==
    /\ \A t \in TaskIds :
          (Done(t) /\ task[t].comp = "raised") =>
              /\ task[t].outcome = "task_error"
              /\ task[t].released = 1
    /\ timeout_count <= Cardinality({t \in TaskIds : task[t].timed_out})

\* C7: shutdown cancels every task that is in the registry when it is
\* called, whatever its stage, and when shutdown returns none of them is in
\* the registry any more.
C7_ShutdownEmptiesRegistry ==
    /\ [][sd'.calls = sd.calls + 1 =>
            \A t \in active_tasks :
                \/ task'[t].must_cancel
                \/ task'[t].stage \in {"cancelling", "unwinding", "done"}]_vars
    /\ [][(sd.pc = "gather" /\ sd'.pc = "idle") =>
            sd.snap \cap active_tasks' = {}]_vars
    /\ [][(sd'.calls = sd.calls + 1 /\ sd'.pc = "idle") =>
            active_tasks' = {}]_vars

\* C8: a second shutdown call, made after a first one has returned, cancels
\* nothing, leaves the registry, the counters, the semaphore and the tasks
\* unchanged and has no unfinished task to wait for.  It is stated for the
\* second calls with no submit_task call made since the call before began
\* (sd.quiet): a task submitted in between would be new work.
C8_ShutdownIdempotent ==
    [][(sd'.calls = sd.calls + 1 /\ sd.calls >= 1 /\ sd.quiet) =>
          /\ UNCHANGED pool
          /\ \A t \in sd'.snap : Done(t)]_vars

\* C9: a submit_task call made while the registry is full creates its task
\* only after some task has released its slot; and if the coroutine of every
\* in-flight task eventually finishes or times out (no task stays in the
\* registry for ever with a coroutine that did neither), every blocked
\* submit_task call eventually returns: again and again no call is blocked.
C9_BlockedSubmit ==
    /\ [][\A s \in Submitters :
            (Blocked(s) /\ sub[s].full /\ ~Blocked(s)') =>
                Released > sub[s].rel0]_vars
    /\ (\A t \in TaskIds :
           []<>(\/ t \notin active_tasks
                \/ task[t].comp \in {"returned", "raised", "cancelled"}
                \/ task[t].timed_out))
          => []<>(\A s \in Submitters : ~Blocked(s))

\* C10: wait_for_completion returns only when the registry is empty, changes
\* no task, and returns eventually provided every in-flight task eventually
\* reaches a terminal outcome.
C10_WaitForCompletion ==
    /\ [][(wfc # "returned" /\ wfc' = "returned") => active_tasks = {}]_vars
    /\ [][wfc' # wfc => UNCHANGED pool]_vars
    /\ (\A t \in TaskIds : []<>(t \notin active_tasks \/ Done(t)))
          => (wfc = "sleeping" ~> wfc = "returned")

\* ------------------------------------------------------- save_checkpoint
Idle(p) == caller[p].pc = "idle"

\* Callers that are in no call are alike: the one with the lowest number
\* makes the next call.
NextCall(p) == Idle(p) /\ \A q \in Callers : Idle(q) => p <= q

\* Between os.remove and os.rename of save_checkpoint no other coroutine
\* runs: there is no await between the two.  Nor does one run between a
\* return and the caller's taking what was returned.
Busy ==
    \/ \E p \in Callers : caller[p].pc = "save_removed"
    \/ ret # NoRet

\* SaveRaise that does not try to remove the temporary file
SaveRaiseKeepsTmp(p, op, at, lost) ==
    /\ ck_tmp' = IF ck_tmp = Absent THEN Absent ELSE Stale
    /\ ck_lock' = 0
    /\ caller' = [caller EXCEPT ![p] = IdleCaller]
    /\ ret' = [NoRet EXCEPT !.op = op, !.kind = "raised", !.lost = lost,
                            !.was = at, !.cleaned = TRUE]

\* The save of caller p has removed a record from self.checkpoint_file and
\* has not put its own there.
Lost(p) ==
    /\ caller[p].pc = "save_removed"
    /\ IsJson(caller[p].prev)
    /\ ck_file # caller[p].prev

\* The except branch of save_checkpoint: when the temporary file exists its
\* os.remove is tried (rm: it succeeds; a failure is swallowed and the file
\* stays, a file no code reads), the error is raised again and leaving
\* "async with self.lock" frees the lock.
SaveRaise(p, op, at, lost) ==
    \E rm \in BOOLEAN :
       /\ ck_tmp = Absent => rm
       /\ ck_tmp' = IF rm THEN Absent ELSE Stale
       /\ ck_lock' = 0
       /\ caller' = [caller EXCEPT ![p] = IdleCaller]
       /\ ret' = [NoRet EXCEPT !.op = op, !.kind = "raised", !.lost = lost,
                               !.was = at, !.cleaned = rm]

\* save_checkpoint from the lock to the first await: the sets and the
\* total go into the manager, the state dict is built (kept as the file
\* that json.dumps makes of it) and the directory is made (ok: os.makedirs
\* succeeds).
SaveBody(p, op, c, f, t, count, ok) ==
    LET n == IF t # None THEN t ELSE total_files
    IN  /\ completed_files' = c
        /\ failed_files' = f
        /\ total_files' = n
        /\ IF ok
           THEN /\ ck_lock' = p
                /\ caller' = [caller EXCEPT ![p] =
                     [IdleCaller EXCEPT !.pc = "save_open", !.op = op,
                        !.args = [valid |-> TRUE, completed |-> c,
                                  failed |-> f, total_files |-> n],
                        !.state = Written(StateOf(c, f, n)),
                        !.count = count]]
                /\ ret' = NoRet
                /\ UNCHANGED ck_tmp
           ELSE SaveRaise(p, op, "makedirs", FALSE)
        /\ UNCHANGED <<last_save_count, ck_file, ck_args,
                       ck_foreign, tally>>

\* asyncio.Lock.acquire takes the lock at once when it is free and no call
\* waits for it; a call that was woken waits in _waiters until it runs.
LockFree == ck_lock = 0 /\ ck_waiters = <<>>

\* Caller p, first of _waiters, has been woken by Lock.release and can go
\* on: release wakes the first waiter when it frees the lock.
Woken(p) == ck_lock = 0 /\ ck_waiters # <<>> /\ Head(ck_waiters) = p

\* save_checkpoint(completed, failed, total_files) with the lock free
SaveCheckpointFree(p, c, f, t, ok) ==
    /\ NextCall(p) /\ ~Busy
    /\ LockFree
    /\ SaveBody(p, "save_checkpoint", c, f, t, 0, ok)
    /\ UNCHANGED <<pool, sub, sd, wfc, quota, max_concurrent, batch, ck_waiters>>

\* save_checkpoint with the lock held, or free with calls waiting for it:
\* the call waits behind them.  Its arguments play no part until it has
\* the lock and are drawn then.
SaveCheckpointBlock(p) ==
    /\ NextCall(p) /\ ~Busy
    /\ ~LockFree
    /\ ck_waiters' = Append(ck_waiters, p)
    /\ caller' = [caller EXCEPT ![p] =
         [IdleCaller EXCEPT !.pc = "save_lock", !.op = "save_checkpoint"]]
    /\ ret' = NoRet
    /\ UNCHANGED <<pool, sub, sd, wfc, quota, max_concurrent, batch,
                   manager, ck_file, ck_tmp, ck_lock,
                   ck_args, ck_foreign, tally>>

\* a save_checkpoint call that waited, the first in line, gets the lock
SaveCheckpointResume(p, c, f, t, ok) ==
    /\ caller[p].pc = "save_lock" /\ ~Busy
    /\ Woken(p)
    /\ ck_waiters' = Tail(ck_waiters)
    /\ IF caller[p].op = "update_progress"
       THEN /\ c = caller[p].args.completed
            /\ f = caller[p].args.failed
            /\ t = None
       ELSE t # None
    /\ SaveBody(p, caller[p].op, c, f, t, caller[p].count, ok)
    /\ UNCHANGED <<pool, sub, sd, wfc, quota, max_concurrent, batch>>

\* SaveOpen that opens self.checkpoint_file instead of the temporary file
SaveOpenInPlace(p, ok) ==
    /\ caller[p].pc = "save_open" /\ ~Busy
    /\ IF ok
       THEN /\ ck_file' = Partial
            /\ ck_foreign' = FALSE
            /\ caller' = [caller EXCEPT ![p].pc = "save_write"]
            /\ ret' = NoRet
            /\ UNCHANGED <<ck_lock, ck_tmp>>
       ELSE /\ SaveRaise(p, caller[p].op, "open", FALSE)
            /\ UNCHANGED <<ck_file, ck_foreign>>
    /\ UNCHANGED <<pool, sub, sd, wfc, quota, max_concurrent, batch, manager, ck_args, tally,
                   ck_waiters>>

\* aiofiles.open(temp_file, 'w') creates or truncates the temporary file
SaveOpen(p, ok) ==
    /\ caller[p].pc = "save_open" /\ ~Busy
    /\ IF ok
       THEN /\ ck_tmp' = Partial
            /\ caller' = [caller EXCEPT ![p].pc = "save_write"]
            /\ ret' = NoRet
            /\ UNCHANGED ck_lock
       ELSE SaveRaise(p, caller[p].op, "open", FALSE)
    /\ UNCHANGED <<pool, sub, sd, wfc, quota, max_concurrent, batch, manager, ck_file, ck_args,
                   ck_foreign, tally, ck_waiters>>

\* f.write(json.dumps(state)): the whole record is in the temporary file
SaveWrite(p, ok) ==
    /\ caller[p].pc = "save_write" /\ ~Busy
    /\ IF ok
       THEN /\ ck_tmp' = caller[p].state
            /\ caller' = [caller EXCEPT ![p].pc = "save_close"]
            /\ ret' = NoRet
            /\ UNCHANGED ck_lock
       ELSE SaveRaise(p, caller[p].op, "write", FALSE)
    /\ UNCHANGED <<pool, sub, sd, wfc, quota, max_concurrent, batch, manager, ck_file, ck_args,
                   ck_foreign, tally, ck_waiters>>

\* The end of a save whose os.rename succeeded: the temporary file is now
\* the checkpoint file and the lock is free.  After a save made by
\* update_progress that method goes on: last_save_count = current_count.
SaveFinish(p) ==
    /\ ck_file' = ck_tmp
    /\ ck_tmp' = Absent
    /\ ck_lock' = 0
    /\ ck_args' = caller[p].args
    /\ ck_foreign' = FALSE
    /\ Counted(0)
    /\ ret' = NoRet
    /\ last_save_count' = IF caller[p].op = "update_progress"
                          THEN caller[p].count ELSE last_save_count
    /\ caller' = [caller EXCEPT ![p] = IdleCaller]
    /\ UNCHANGED <<completed_files, failed_files, total_files>>

\* After the temporary file is closed: os.remove of the checkpoint file
\* when there is one, else os.rename at once.
SaveReplace(p, ok) ==
    /\ caller[p].pc = "save_close" /\ ~Busy
    /\ IF ~ok
       THEN /\ SaveRaise(p, caller[p].op, "replace", FALSE)
            /\ UNCHANGED <<manager, ck_file, ck_args, ck_foreign, tally>>
       ELSE IF ck_file.kind # "absent"
       THEN /\ ck_file' = Absent
            /\ ck_foreign' = FALSE
            /\ ck_args' = NoArgs
            /\ caller' = [caller EXCEPT ![p].pc = "save_removed",
                                        ![p].prev = ck_file]
            /\ ret' = NoRet
            /\ UNCHANGED <<manager, ck_tmp, ck_lock, tally>>
       ELSE SaveFinish(p)
    /\ UNCHANGED <<pool, sub, sd, wfc, quota, max_concurrent, batch, ck_waiters>>

\* os.rename(temp_file, self.checkpoint_file) after the os.remove
SaveRename(p, ok) ==
    /\ caller[p].pc = "save_removed" /\ ret = NoRet
    /\ IF ok
       THEN SaveFinish(p)
       ELSE /\ SaveRaise(p, caller[p].op, "rename", Lost(p))
            /\ UNCHANGED <<manager, ck_file, ck_args, ck_foreign, tally>>
    /\ UNCHANGED <<pool, sub, sd, wfc, quota, max_concurrent, batch, ck_waiters>>

\* ------------------------------------------------------- update_progress
\* where file id is: in one of the two sets, in none, or in both
Membership(id) ==
    IF id \in completed_files
    THEN IF id \in failed_files THEN "both" ELSE "completed"
    ELSE IF id \in failed_files THEN "failed" ELSE "unseen"

\* Record without the discard from the other set
RecordKeepsOther(id, status) ==
    CASE status = "completed" -> <<completed_files \cup {id}, failed_files>>
      [] status = "failed" -> <<completed_files, failed_files \cup {id}>>
      [] OTHER -> <<completed_files, failed_files>>

\* Record where a failure only takes the file out of the completed set
RecordForgetsFailed(id, status) ==
    CASE status = "completed" ->
           <<completed_files \cup {id}, failed_files \ {id}>>
      [] status = "failed" -> <<completed_files \ {id}, failed_files>>
      [] OTHER -> <<completed_files, failed_files>>

\* Record that forgets every file but the one recorded
RecordOnlyLatest(id, status) ==
    CASE status = "completed" -> <<{id}, failed_files \ {id}>>
      [] status = "failed" -> <<completed_files \ {id}, {id}>>
      [] OTHER -> <<completed_files, failed_files>>

\* the two sets after update_progress has recorded status for file id
Record(id, status) ==
    CASE status = "completed" ->
           <<completed_files \cup {id}, failed_files \ {id}>>
      [] status = "failed" ->
           <<completed_files \ {id}, failed_files \cup {id}>>
      [] OTHER -> <<completed_files, failed_files>>

\* update_progress under the lock, w being the calls that wait for it.
\* When auto_save is set and the interval is reached it calls
\* save_checkpoint, which waits for self.lock, behind them, while this
\* caller holds it; else it returns and the lock is free again.
UpdateBody(p, id, status, auto, w) ==
    LET sets == Record(id, status)
        current_count == Cardinality(sets[1]) + Cardinality(sets[2])
    IN  /\ completed_files' = sets[1]
        /\ failed_files' = sets[2]
        /\ IF status \in {"completed", "failed"}
           THEN Counted(IF ck_unsaved + 1 < auto_save_interval
                        THEN ck_unsaved + 1 ELSE auto_save_interval)
           ELSE UNCHANGED tally
        /\ IF auto /\ current_count - last_save_count >= auto_save_interval
           THEN /\ ck_lock' = p
                /\ ck_waiters' = Append(w, p)
                /\ caller' = [caller EXCEPT ![p] =
                     [IdleCaller EXCEPT !.pc = "save_lock",
                        !.op = "update_progress",
                        !.args = [valid |-> TRUE, completed |-> sets[1],
                                  failed |-> sets[2], total_files |-> None],
                        !.count = current_count]]
                /\ ret' = NoRet
           ELSE /\ ck_lock' = 0
                /\ ck_waiters' = w
                /\ caller' = [caller EXCEPT ![p] = IdleCaller]
                /\ ret' = [NoRet EXCEPT !.op = "update_progress",
                             !.kind = "ok", !.id = id, !.status = status,
                             !.was = Membership(id)]
        /\ UNCHANGED <<total_files, last_save_count, ck_file, ck_tmp,
                       ck_args, ck_foreign>>

\* update_progress(file_path, status, auto_save) with the lock free
UpdateProgressFree(p, id, status, auto) ==
    /\ NextCall(p) /\ ~Busy
    /\ LockFree
    /\ UpdateBody(p, id, status, auto, ck_waiters)
    /\ UNCHANGED <<pool, sub, sd, wfc, quota, max_concurrent, batch>>

\* update_progress with the lock held, or free with calls waiting for it:
\* the call waits behind them.  Its arguments play no part until it has
\* the lock and are drawn then.
UpdateProgressBlock(p) ==
    /\ NextCall(p) /\ ~Busy
    /\ ~LockFree
    /\ ck_waiters' = Append(ck_waiters, p)
    /\ caller' = [caller EXCEPT ![p] =
         [IdleCaller EXCEPT !.pc = "update_lock", !.op = "update_progress"]]
    /\ ret' = NoRet
    /\ UNCHANGED <<pool, sub, sd, wfc, quota, max_concurrent, batch,
                   manager, ck_file, ck_tmp, ck_lock,
                   ck_args, ck_foreign, tally>>

\* an update_progress call that waited, the first in line, gets the lock
UpdateProgressResume(p, id, status, auto) ==
    /\ caller[p].pc = "update_lock" /\ ~Busy
    /\ Woken(p)
    /\ UpdateBody(p, id, status, auto, Tail(ck_waiters))
    /\ UNCHANGED <<pool, sub, sd, wfc, quota, max_concurrent, batch>>

\* ------------------------------------------------------- load_checkpoint
\* the manager is as __init__ leaves it
Fresh ==
    /\ completed_files = {} /\ failed_files = {}
    /\ total_files = 0 /\ last_save_count = 0

SetsReturned(c, f) ==
    [NoRet EXCEPT !.op = "load_checkpoint", !.kind = "sets",
                  !.completed = c, !.failed = f,
                  !.was = IF Fresh THEN "fresh" ELSE "used"]

\* the except branch of load_checkpoint: return set(), set()
LoadFailed == SetsReturned({}, {})

\* load_checkpoint: os.path.exists, then on to aiofiles.open
LoadCheckpoint(p) ==
    /\ NextCall(p) /\ ~Busy
    /\ IF ck_file.kind = "absent"
       THEN /\ ret' = SetsReturned({}, {})
            /\ UNCHANGED caller
       ELSE /\ ret' = NoRet
            /\ caller' = [caller EXCEPT ![p] =
                 [IdleCaller EXCEPT !.pc = "load_open",
                                    !.op = "load_checkpoint"]]
    /\ UNCHANGED <<pool, sub, sd, wfc, quota, max_concurrent, batch,
                   manager, ck_file, ck_tmp, ck_lock, ck_waiters,
                   ck_args, ck_foreign, tally>>

\* Get that does not find the "failed" key
GetWithoutFailed(d, key, default) ==
    IF key # "\"failed\"" /\ \E i \in DOMAIN d.keys : d.keys[i] = key
    THEN d.items[CHOOSE i \in DOMAIN d.keys :
                    /\ d.keys[i] = key
                    /\ \A j \in DOMAIN d.keys : j > i => d.keys[j] # key]
    ELSE default

\* state.get(key, default) of the dict d that json.loads made: of a key
\* that the text has more than once the last value counts
Get(d, key, default) ==
    IF \E i \in DOMAIN d.keys : d.keys[i] = key
    THEN d.items[CHOOSE i \in DOMAIN d.keys :
                    /\ d.keys[i] = key
                    /\ \A j \in DOMAIN d.keys : j > i => d.keys[j] # key]
    ELSE default

\* The worker thread of aiofiles.open opens the file, as it is at that
\* moment: what is read later is this file, also when it has been removed
\* or replaced since (a save writes a new file and renames it, it never
\* writes into this one).  The thread does not wait for the event loop: it
\* can run between the os.remove and the os.rename of a save_checkpoint
\* call, when there is no file.  Then it raises FileNotFoundError, and
\* when the open fails for another reason (ok is false) another OSError.
LoadOpen(p, ok) ==
    /\ caller[p].pc = "load_open" /\ ret = NoRet
    /\ caller' =
          IF ck_file.kind = "absent"
          THEN [caller EXCEPT ![p].pc = "load_missing"]
          ELSE IF ok
          THEN [caller EXCEPT ![p].pc = "load_read",
                              ![p].state = ck_file,
                              ![p].args = ck_args]
          ELSE [caller EXCEPT ![p].pc = "load_raised"]
    /\ ret' = NoRet
    /\ UNCHANGED <<pool, sub, sd, wfc, quota, max_concurrent, batch,
                   manager, ck_file, ck_tmp, ck_lock, ck_waiters,
                   ck_args, ck_foreign, tally>>

\* f.read() has returned the content and json.loads has parsed it or has
\* raised; leaving "async with" the coroutine waits for the file's close.
\* A read that fails (ok is false) raises after the close.
LoadRead(p, ok) ==
    /\ caller[p].pc = "load_read" /\ ~Busy
    /\ caller' = [caller EXCEPT ![p].pc = IF ok THEN "load_close"
                                          ELSE "load_raised"]
    /\ ret' = NoRet
    /\ UNCHANGED <<pool, sub, sd, wfc, quota, max_concurrent, batch,
                   manager, ck_file, ck_tmp, ck_lock, ck_waiters,
                   ck_args, ck_foreign, tally>>

\* The coroutine resumes with the exception of the open or of the read:
\* the except branch returns two empty sets.
LoadRaise(p) ==
    /\ caller[p].pc \in {"load_missing", "load_raised"} /\ ~Busy
    /\ caller' = [caller EXCEPT ![p] = IdleCaller]
    /\ ret' = LoadFailed
    /\ UNCHANGED <<pool, sub, sd, wfc, quota, max_concurrent, batch,
                   manager, ck_file, ck_tmp, ck_lock, ck_waiters,
                   ck_args, ck_foreign, tally>>

\* set(v) does not raise: v is a list, here one of paths (of the values in
\* the files considered, a number is not iterable)
Iterable(v) ==
    /\ v.t = "list"
    /\ \A i \in DOMAIN v.items :
          /\ v.items[i].t = "str"
          /\ \E k \in DOMAIN PathNames : PathNames[k] = v.items[i].s

\* set(v) for a list of paths, as the set of their file ids: IdOf(x) is
\* the file whose path is the string literal x
PathSet(v) ==
    LET IdOf(x) == CHOOSE i \in DOMAIN PathNames : PathNames[i] = x
    IN  SeqToSet([i \in DOMAIN v.items |-> IdOf(v.items[i].s)])

\* What load_checkpoint gets out of the content of file d: whether
\* json.loads returns a dict, and the three values it asks the dict for.
Loaded(d) ==
    CHOOSE state \in
      {[dict |-> r.ok /\ r.val.t = "dict",
        completed |-> Get(r.val, "\"completed\"", [JNull EXCEPT !.t = "list"]),
        failed |-> Get(r.val, "\"failed\"", [JNull EXCEPT !.t = "list"]),
        total_files |-> Get(r.val, "\"total_files\"", [JNull EXCEPT !.t = "num"])] :
         r \in {Loads(d.text)}} : TRUE

\* After the close: the manager's fields are assigned one after the other
\* from the dict read, until a value of the wrong type raises (set() of
\* what is no list; "self.total_files > 0" for a total that is no number,
\* for which None stands); every exception, that of json.loads too, ends
\* in "return set(), set()".
LoadAssign(p) ==
    /\ caller[p].pc = "load_close" /\ ~Busy
    /\ caller' = [caller EXCEPT ![p] = IdleCaller]
    /\ \E state \in {Loaded(caller[p].state)} :
       LET c == PathSet(state.completed)
           f == PathSet(state.failed)
           n == IF state.total_files.t = "num" THEN state.total_files.n
                ELSE None
       IN  IF ~state.dict \/ ~Iterable(state.completed)
           THEN /\ ret' = LoadFailed
                /\ UNCHANGED <<completed_files, failed_files, total_files>>
           ELSE IF ~Iterable(state.failed)
           THEN /\ completed_files' = c
                /\ ret' = LoadFailed
                /\ UNCHANGED <<failed_files, total_files>>
           ELSE /\ completed_files' = c
                /\ failed_files' = f
                /\ total_files' = n
                /\ ret' = IF n = None THEN LoadFailed
                          ELSE SetsReturned(c, f)
    /\ UNCHANGED <<pool, sub, sd, wfc, quota, max_concurrent, batch,
                   last_save_count, ck_file,
                   ck_tmp,
                   ck_lock, ck_waiters, ck_args, ck_foreign, tally>>

\* ------------------------------------- should_skip_file, clear_checkpoint
\* ShouldSkipFile that also skips the files that failed
ShouldSkipFileSeen(id, force_rerun) ==
    IF force_rerun THEN FALSE ELSE id \in completed_files \cup failed_files

ShouldSkipFile(id, force_rerun) ==
    IF force_rerun THEN FALSE ELSE id \in completed_files

\* a caller asks should_skip_file(file_path, force_rerun)
ShouldSkip(p, id, force) ==
    /\ NextCall(p) /\ ~Busy
    /\ ret' = [NoRet EXCEPT !.op = "should_skip_file",
                 !.kind = "bool", !.id = id, !.force = force,
                 !.result = ShouldSkipFile(id, force)]
    /\ UNCHANGED <<pool, sub, sd, wfc, quota, max_concurrent, batch, manager, ck_file, ck_tmp,
                   ck_lock, ck_waiters, caller, ck_args, ck_foreign, tally>>

\* clear_checkpoint: the file is removed (ok: os.remove succeeds; a failure
\* is only printed) and the manager is reset, whether or not a file was
\* removed.  It takes no lock.
ClearCheckpoint(p, ok) ==
    /\ NextCall(p) /\ ~Busy
    /\ IF ok /\ ck_file.kind # "absent"
       THEN /\ ck_file' = Absent
            /\ ck_args' = NoArgs
            /\ ck_foreign' = FALSE
       ELSE UNCHANGED <<ck_file, ck_args, ck_foreign>>
    /\ completed_files' = {}
    /\ failed_files' = {}
    /\ total_files' = 0
    /\ last_save_count' = 0
    /\ Counted(0)
    /\ ret' = NoRet
    /\ UNCHANGED <<pool, sub, sd, wfc, quota, max_concurrent, batch, ck_tmp, ck_lock, ck_waiters, caller>>

\* ---------------------------------------------------------------- restart
\* The process ends, at any point, and the next run makes a new
\* CheckpointManager on the same files.  A save cut off around its
\* replacement leaves behind what it found at self.checkpoint_file.
Restart ==
    /\ ret = NoRet
    /\ completed_files' = {}
    /\ failed_files' = {}
    /\ total_files' = 0
    /\ last_save_count' = 0
    /\ ck_lock' = 0
    /\ ck_waiters' = <<>>
    /\ caller' = [p \in Callers |-> IdleCaller]
    /\ ret' = [NoRet EXCEPT !.op = "restart",
         !.kind = IF \E p \in Callers :
                        caller[p].pc \in {"save_close", "save_removed"}
                  THEN "cut" ELSE "none",
         !.lost = \E p \in Callers : Lost(p)]
    /\ ck_tmp' = IF ck_tmp = Absent THEN Absent ELSE Stale
    /\ Counted(0)
    /\ UNCHANGED <<pool, sub, sd, wfc, quota, max_concurrent, batch,
                   ck_file, ck_args, ck_foreign>>

\* The sets a caller passes to save_checkpoint: those of a run, in which a
\* file is completed or failed and not both.
SetPairs == {cf \in (SUBSET Ids) \X (SUBSET Ids) : cf[1] \cap cf[2] = {}}

CkInit ==
    /\ PoolInit
    /\ ManagerInit
    /\ ck_file \in InitialFiles
    /\ ck_tmp = Absent
    /\ ck_args = NoArgs
    /\ ck_foreign = (ck_file # Absent)
    /\ Uncounted

\* a run in which the manager is made with any interval up to
\* AutoSaveInterval + 1 and the outcomes are counted
CountInit ==
    /\ PoolInit
    /\ ManagerInit
    /\ ck_file \in InitialFiles
    /\ ck_tmp = Absent
    /\ ck_args = NoArgs
    /\ ck_foreign = (ck_file # Absent)
    /\ auto_save_interval \in 1 .. (AutoSaveInterval + 1)
    /\ ck_unsaved = 0

CkNext ==
    \/ \E p \in Callers, cf \in SetPairs, t \in TotalArgs, ok \in BOOLEAN :
           SaveCheckpointFree(p, cf[1], cf[2], t, ok)
    \/ \E p \in Callers : SaveCheckpointBlock(p)
    \/ \E p \in Callers, cf \in SetPairs, t \in {None} \cup TotalArgs,
         ok \in BOOLEAN :
           SaveCheckpointResume(p, cf[1], cf[2], t, ok)
    \/ \E p \in Callers, ok \in BOOLEAN : SaveOpen(p, ok)
    \/ \E p \in Callers, ok \in BOOLEAN : SaveWrite(p, ok)
    \/ \E p \in Callers, ok \in BOOLEAN : SaveReplace(p, ok)
    \/ \E p \in Callers, ok \in BOOLEAN : SaveRename(p, ok)
    \/ \E p \in Callers, id \in Ids, st \in Statuses, auto \in BOOLEAN :
           UpdateProgressFree(p, id, st, auto)
    \/ \E p \in Callers : UpdateProgressBlock(p)
    \/ \E p \in Callers, id \in Ids, st \in Statuses, auto \in BOOLEAN :
           UpdateProgressResume(p, id, st, auto)
    \/ \E p \in Callers : LoadCheckpoint(p)
    \/ \E p \in Callers, ok \in BOOLEAN : LoadOpen(p, ok)
    \/ \E p \in Callers, ok \in BOOLEAN : LoadRead(p, ok)
    \/ \E p \in Callers : LoadRaise(p)
    \/ \E p \in Callers : LoadAssign(p)
    \/ \E p \in Callers, id \in Ids, force \in BOOLEAN : ShouldSkip(p, id, force)
    \/ \E p \in Callers, ok \in BOOLEAN : ClearCheckpoint(p, ok)
    \/ Restart
    \/ Return

CkSpec == CkInit /\ [][CkNext]_vars

\* A run that saves and clears: every save_checkpoint call with every
\* failure of its OS calls, clear_checkpoint and the end of the process.
SaveNext ==
    \/ \E p \in Callers, cf \in SetPairs, t \in TotalArgs, ok \in BOOLEAN :
           SaveCheckpointFree(p, cf[1], cf[2], t, ok)
    \/ \E p \in Callers : SaveCheckpointBlock(p)
    \/ \E p \in Callers, cf \in SetPairs, t \in TotalArgs, ok \in BOOLEAN :
           SaveCheckpointResume(p, cf[1], cf[2], t, ok)
    \/ \E p \in Callers, ok \in BOOLEAN : SaveOpen(p, ok)
    \/ \E p \in Callers, ok \in BOOLEAN : SaveWrite(p, ok)
    \/ \E p \in Callers, ok \in BOOLEAN : SaveReplace(p, ok)
    \/ \E p \in Callers, ok \in BOOLEAN : SaveRename(p, ok)
    \/ \E p \in Callers, ok \in BOOLEAN : ClearCheckpoint(p, ok)
    \/ Restart
    \/ Return

SaveSpec == CkInit /\ [][SaveNext]_vars

\* A run that loads what saves have written: one load_checkpoint call at a
\* time, among save_checkpoint calls whose OS calls succeed,
\* clear_checkpoint and the end of the process at any point.
LoadNext ==
    \/ \E p \in Callers, cf \in SetPairs, t \in TotalArgs :
           SaveCheckpointFree(p, cf[1], cf[2], t, TRUE)
    \/ \E p \in Callers : SaveCheckpointBlock(p)
    \/ \E p \in Callers, cf \in SetPairs, t \in TotalArgs :
           SaveCheckpointResume(p, cf[1], cf[2], t, TRUE)
    \/ \E p \in Callers : SaveOpen(p, TRUE)
    \/ \E p \in Callers : SaveWrite(p, TRUE)
    \/ \E p \in Callers : SaveReplace(p, TRUE)
    \/ \E p \in Callers : SaveRename(p, TRUE)
    \/ \E p \in Callers :
           /\ \A q \in Callers : caller[q].op # "load_checkpoint"
           /\ LoadCheckpoint(p)
    \/ \E p \in Callers, ok \in BOOLEAN : LoadOpen(p, ok)
    \/ \E p \in Callers, ok \in BOOLEAN : LoadRead(p, ok)
    \/ \E p \in Callers : LoadRaise(p)
    \/ \E p \in Callers : LoadAssign(p)
    \/ \E p \in Callers, ok \in BOOLEAN : ClearCheckpoint(p, ok)
    \/ Restart
    \/ Return

LoadSpec == CkInit /\ [][LoadNext]_vars

\* A run that saves once and loads, as test_save_and_load_checkpoint does:
\* the calls are made one after the other, the save_checkpoint call with
\* any two sets of the files TripIds, also sets with files in common, and
\* any total or None; the OS calls succeed; the process may end and the
\* next run go on with a new manager, at any point.  What the run finds at
\* self.checkpoint_file is nothing or a document cut off.
NoCall == \A q \in Callers : Idle(q)

TripInit ==
    /\ PoolInit
    /\ ManagerInit
    /\ ck_file \in {Absent, Truncated}
    /\ ck_tmp = Absent
    /\ ck_args = NoArgs
    /\ ck_foreign = (ck_file # Absent)
    /\ Uncounted

TripNext ==
    \/ /\ NoCall /\ ~ck_args.valid
       /\ \E cf \in (SUBSET TripIds) \X (SUBSET TripIds),
             t \in {None} \cup (0 .. MaxTotal) :
              SaveCheckpointFree(1, cf[1], cf[2], t, TRUE)
    \/ \E p \in Callers : SaveOpen(p, TRUE)
    \/ \E p \in Callers : SaveWrite(p, TRUE)
    \/ \E p \in Callers : SaveReplace(p, TRUE)
    \/ \E p \in Callers : SaveRename(p, TRUE)
    \/ NoCall /\ LoadCheckpoint(1)
    \/ \E p \in Callers : LoadOpen(p, TRUE)
    \/ \E p \in Callers : LoadRead(p, TRUE)
    \/ \E p \in Callers : LoadAssign(p)
    \/ Restart
    \/ Return

TripSpec == TripInit /\ [][TripNext]_vars

CountSpec == CountInit /\ [][CkNext]_vars

\* The event loop runs every coroutine that can go on; whether a step
\* fails, and whether callers call or the process ends, is left open.
CkFairness ==
    \A p \in Callers :
       /\ WF_vars(\E cf \in SetPairs, t \in {None} \cup TotalArgs,
                     ok \in BOOLEAN :
                     SaveCheckpointResume(p, cf[1], cf[2], t, ok))
       /\ WF_vars(\E ok \in BOOLEAN : SaveOpen(p, ok))
       /\ WF_vars(\E ok \in BOOLEAN : SaveWrite(p, ok))
       /\ WF_vars(\E ok \in BOOLEAN : SaveReplace(p, ok))
       /\ WF_vars(\E ok \in BOOLEAN : SaveRename(p, ok))
       /\ WF_vars(\E id \in Ids, st \in Statuses, auto \in BOOLEAN :
                     UpdateProgressResume(p, id, st, auto))
       /\ WF_vars(\E ok \in BOOLEAN : LoadOpen(p, ok))
       /\ WF_vars(\E ok \in BOOLEAN : LoadRead(p, ok))
       /\ WF_vars(LoadRaise(p))
       /\ WF_vars(LoadAssign(p))
       /\ WF_vars(Return)

FairCkSpec == CkSpec /\ CkFairness

\* ------------------------------------------- properties of the checkpoint
Disjoint == completed_files \cap failed_files = {}

\* a step in which update_progress(id, status, auto) records the outcome
UpdateStep(id, status, auto) ==
    \E p \in Callers : \/ UpdateProgressFree(p, id, status, auto)
                       \/ UpdateProgressResume(p, id, status, auto)

\* what every update_progress step shows: the call returns, or it comes to
\* wait in its own save_checkpoint
UpdateSeen ==
    \/ ret'.op = "update_progress"
    \/ \E p \in Callers : /\ caller'[p].op = "update_progress"
                           /\ caller'[p].pc = "save_lock"
                           /\ caller[p].pc # "save_lock"

\* C11: the two sets start disjoint, and every update_progress(id, s) with
\* s completed or failed leaves id in the set named by s and not in the
\* other, in both directions, and keeps disjoint sets disjoint.
C11_UpdateKeepsDisjoint ==
    /\ Disjoint
    /\ [][UpdateSeen => \A id \in Ids \cup StatIds, auto \in BOOLEAN :
            /\ UpdateStep(id, "completed", auto)
                 => id \in completed_files' /\ id \notin failed_files'
            /\ UpdateStep(id, "failed", auto)
                 => id \in failed_files' /\ id \notin completed_files'
            /\ \A st \in Statuses :
                 UpdateStep(id, st, auto) /\ Disjoint => Disjoint']_vars

\* an update_progress call has moved a completed file to the failed set
C11_Witness ==
    /\ ret.op = "update_progress" /\ ret.status = "failed"
    /\ ret.was = "completed"
    /\ ret.id \in failed_files \ completed_files

\* where file id is after the step
MembershipAfter(id) ==
    IF id \in completed_files'
    THEN IF id \in failed_files' THEN "both" ELSE "completed"
    ELSE IF id \in failed_files' THEN "failed" ELSE "unseen"

\* C19: an update_progress call with status completed or failed, made when
\* the sets are disjoint, moves a file only along unseen -> completed,
\* unseen -> failed, failed -> completed, completed -> failed, and never
\* back to unseen.
C19_IdentifierTransitions ==
    [][UpdateSeen /\ Disjoint =>
       \A id \in Ids \cup StatIds, st \in {"completed", "failed"},
          auto \in BOOLEAN :
         UpdateStep(id, st, auto) =>
            \A i \in Ids \cup StatIds :
               \/ MembershipAfter(i) = Membership(i)
               \/ <<Membership(i), MembershipAfter(i)>> \in
                     {<<"unseen", "completed">>, <<"unseen", "failed">>,
                      <<"failed", "completed">>, <<"completed", "failed">>}]_vars

\* an update_progress call has moved a failed file to the completed set
C19_Witness ==
    /\ ret.op = "update_progress" /\ ret.status = "completed"
    /\ ret.was = "failed"
    /\ Membership(ret.id) = "completed"

\* C12: a save_checkpoint that is cut off, by the end of the process or by
\* a failure, after its temporary file is written and before its rename
\* has happened leaves at self.checkpoint_file the file it found there.
C12_InterruptedSaveKeepsFile ==
    ret.kind \in {"raised", "cut"} => ~ret.lost

\* C13: a load_checkpoint that follows save_checkpoint(completed, failed,
\* total_files) and reads the file it wrote returns sets equal to
\* completed and failed and sets total_files to the total saved (the
\* argument, or the manager's total when the argument is None), whatever
\* the sets and the total; so it does on a manager fresh from __init__.
C13_RoundTrip ==
    [][\A p \in Callers :
         (/\ caller[p].pc = "load_close" /\ caller[p].args.valid
          /\ LoadAssign(p)) =>
            /\ ret'.kind = "sets"
            /\ ret'.completed = caller[p].args.completed
            /\ ret'.failed = caller[p].args.failed
            /\ completed_files' = caller[p].args.completed
            /\ failed_files' = caller[p].args.failed
            /\ total_files' = caller[p].args.total_files]_vars

\* the case of test_save_and_load_checkpoint: three completed files, one
\* failed file and a total of 10 were saved, and a manager fresh from
\* __init__ has loaded them
C13_Witness ==
    /\ ret.op = "load_checkpoint" /\ ret.kind = "sets" /\ ret.was = "fresh"
    /\ ck_args.valid /\ ck_args.total_files = 10
    /\ ck_file = Written(StateOf({1, 2, 3}, {4}, 10))
    /\ ret.completed = {1, 2, 3} /\ ret.failed = {4}
    /\ total_files = 10

\* the save steps of a call, from the lock on
SavePcs == {"save_lock", "save_open", "save_write", "save_close",
            "save_removed"}

\* C14: an update_progress call that reaches the interval with auto_save
\* set makes the save itself: it returns, and when it returns the record
\* at self.checkpoint_file is the one with the sets it has just updated.
C14_AutoSaveBeforeReturn ==
    /\ [][\A p \in Callers :
            (/\ caller[p].op = "update_progress" /\ caller[p].pc \in SavePcs
             /\ caller'[p].pc = "idle"
             /\ ret'.op # "restart" /\ ret'.kind # "raised")
            => /\ IsJson(ck_file')
               /\ ck_args' = caller[p].args]_vars
    /\ \A p \in Callers :
          (caller[p].op = "update_progress" /\ caller[p].pc = "save_lock")
             ~> (caller[p].pc = "idle")

\* a file that holds a record load_checkpoint can read
Readable(d) ==
    /\ d.kind = "text"
    /\ \E state \in {Loaded(d)} :
          /\ state.dict
          /\ Iterable(state.completed)
          /\ Iterable(state.failed)
          /\ state.total_files.t = "num"

\* C15: load_checkpoint always returns two sets and never an error: the
\* completed and failed sets of the record when it has read a file that
\* holds one, two empty sets when there is no file or the file cannot be
\* read or parsed; and it finds no file only when there is no record: not
\* while a save_checkpoint call is replacing a record that can be read.
C15_LoadNeverFails ==
    /\ [][\A p \in Callers :
            (/\ ret'.op = "load_checkpoint"
             /\ \/ LoadCheckpoint(p) /\ caller'[p].pc = "idle"
                \/ LoadRaise(p)
                \/ LoadAssign(p)) =>
               /\ ret'.kind = "sets"
               /\ IF caller[p].pc = "load_close" /\ Readable(caller[p].state)
                  THEN /\ ret'.completed =
                              PathSet(Loaded(caller[p].state).completed)
                       /\ ret'.failed =
                              PathSet(Loaded(caller[p].state).failed)
                  ELSE ret'.completed = {} /\ ret'.failed = {}]_vars
    /\ [][\A p \in Callers :
            (caller[p].pc = "load_open" /\ caller'[p].pc = "load_missing") =>
               ~\E q \in Callers : /\ caller[q].pc = "save_removed"
                                   /\ Readable(caller[q].prev)]_vars

\* C16: when a save_checkpoint call ends after its state is built without
\* having put its record at self.checkpoint_file, the process going on,
\* the temporary file is gone, the caller gets the error and the lock is
\* free.
C16_FailedSaveCleansUp ==
    [][\A p \in Callers :
         (/\ caller[p].pc \in SavePcs \ {"save_lock"}
          /\ caller'[p].pc = "idle"
          /\ ret'.op # "restart"
          /\ ~(ck_file' = caller[p].state /\ ck_args' = caller[p].args))
         => /\ ck_tmp' = Absent
            /\ ret'.kind = "raised" /\ ret'.op = caller[p].op
            /\ ck_lock' = 0]_vars

\* C16 with the removal of the temporary file taken as the attempt it is:
\* when a save_checkpoint call ends after its state is built without
\* having put its record at self.checkpoint_file, the process going on,
\* the caller gets the error, the lock is free, and the temporary file is
\* gone unless its os.remove in the except branch has failed, in which
\* case it is left behind.
C16_FailedSaveCleansUpIfRemovable ==
    [][\A p \in Callers :
         (/\ caller[p].pc \in SavePcs \ {"save_lock"}
          /\ caller'[p].pc = "idle"
          /\ ret'.op # "restart"
          /\ ~(ck_file' = caller[p].state /\ ck_args' = caller[p].args))
         => /\ ck_tmp' = IF ret'.cleaned THEN Absent ELSE Stale
            /\ ret'.kind = "raised" /\ ret'.op = caller[p].op
            /\ ck_lock' = 0]_vars

\* a save_checkpoint whose write to the temporary file failed has raised
\* and has removed the temporary file it had opened
C16_Witness ==
    /\ ret.op = "save_checkpoint" /\ ret.kind = "raised"
    /\ ret.was = "write" /\ ret.cleaned
    /\ ck_tmp = Absent /\ ck_lock = 0

\* C17: should_skip_file(id, force_rerun) returns true exactly when
\* force_rerun is false and id is in the completed set, so never for a
\* file that is only in the failed set or in neither, and the call leaves
\* the manager, the files and the lock as they are.
C17_ShouldSkipFile ==
    [][ret'.op = "should_skip_file" =>
         /\ ret'.result <=> (~ret'.force /\ ret'.id \in completed_files)
         /\ Membership(ret'.id) \in {"failed", "unseen"} => ~ret'.result
         /\ UNCHANGED <<manager, ck_file, ck_tmp, ck_lock, ck_waiters, caller>>]_vars

\* should_skip_file has said no for a file that is only in the failed set
C17_Witness ==
    /\ ret.op = "should_skip_file" /\ ~ret.force
    /\ Membership(ret.id) = "failed"
    /\ ~ret.result

\* C18: when a manager, also one made after a restart, has loaded the
\* record that a save_checkpoint call persisted with completed set K and
\* failed set F, should_skip_file(id, false) is true exactly for the ids
\* in K and every id of F is in the failed set; and, K and F being the
\* sets of a run, which have no file in common, no id of F is skipped.
C18_ResumeAfterRestart ==
    [][\A p \in Callers :
         (/\ caller[p].pc = "load_close" /\ caller[p].args.valid
          /\ LoadAssign(p)) =>
            LET K == caller[p].args.completed
                F == caller[p].args.failed
            IN  /\ \A id \in TripIds : ShouldSkipFile(id, FALSE)' <=> id \in K
                /\ \A id \in F : id \in failed_files'
                /\ K \cap F = {} =>
                      \A id \in F : ~ShouldSkipFile(id, FALSE)']_vars

\* a run saved two completed files and two failed ones, the process ended,
\* and the manager of the next run has loaded them: it skips the first two
\* and not the others
C18_Witness ==
    /\ ret.op = "load_checkpoint" /\ ret.kind = "sets" /\ ret.was = "fresh"
    /\ ck_args.valid
    /\ ck_args.completed = {1, 3} /\ ck_args.failed = {2, 4}
    /\ completed_files = {1, 3} /\ failed_files = {2, 4}
    /\ \A id \in {1, 3} : ShouldSkipFile(id, FALSE)
    /\ \A id \in {2, 4} : ~ShouldSkipFile(id, FALSE)

\* C20: a file at self.checkpoint_file that this code has put there is, in
\* every state, the whole record of the one save_checkpoint call that put
\* it there: the state that call built from its own arguments.
C20_WholeRecord ==
    (ck_file # Absent /\ ~ck_foreign) =>
        /\ ck_args.valid
        /\ ck_file = Written(StateOf(ck_args.completed, ck_args.failed,
                                     ck_args.total_files))

\* a later save is about to replace the record of an earlier one
C20_Witness ==
    /\ ck_args.valid /\ IsJson(ck_file)
    /\ \E p \in Callers : /\ caller[p].pc = "save_close"
                          /\ ck_tmp = caller[p].state
                          /\ ck_tmp # ck_file

\* C21: when a save_checkpoint call returns without an error, the
\* completed and failed lists of the file at self.checkpoint_file are the
\* manager's completed and failed sets of that moment, whatever the file
\* held before.
C21_FullSnapshot ==
    [][\A p \in Callers :
         (/\ caller[p].pc \in {"save_close", "save_removed"}
          /\ caller'[p].pc = "idle"
          /\ ret' = NoRet) =>
            /\ IsJson(ck_file')
            /\ PathSet(Loaded(ck_file').completed) = completed_files'
            /\ PathSet(Loaded(ck_file').failed) = failed_files']_vars

\* C23: the completed set, the failed set and last_save_count change only
\* in a step of the caller that holds the lock: while one caller holds it
\* from before a step to after it, a step of another caller's load or
\* clear leaves the three as they are.
C23_MutationsUnderLock ==
    [][(ck_lock # 0 /\ ck_lock' = ck_lock) =>
          \/ UNCHANGED <<completed_files, failed_files, last_save_count>>
          \/ caller'[ck_lock] # caller[ck_lock]]_vars

\* C29: every update_progress call comes to an end, also the one that
\* reaches the interval and calls save_checkpoint with the lock held, and
\* the lock is free when it has returned.
C29_UpdateTerminates ==
    /\ [](ret.op = "update_progress" => ck_lock = 0)
    /\ \A p \in Callers :
          (caller[p].op = "update_progress") ~> Idle(p)

\* C22: when an update_progress call made with auto_save set returns,
\* fewer outcomes than auto_save_interval have been recorded since the
\* latest save, each recorded outcome counting, also that of a file
\* already in one of the sets.
C22_UnsavedBelowInterval ==
    [][ret'.op = "update_progress" =>
         \A id \in Ids, st \in Statuses :
            UpdateStep(id, st, TRUE) => ck_unsaved' < auto_save_interval]_vars

\* ---------------------------------------------------- get_progress_stats
\* get_progress_stats is a function of the two sets and total_files.  It is
\* applied to the managers of StatsSpec, whose sets and total are what
\* save_checkpoint can have been given.


\* GetProgressStats without the max(0, ...) of remaining_count
GetProgressStatsNoFloor ==
    LET done_count == Cardinality(completed_files)
        fail_count == Cardinality(failed_files)
        processed_count == done_count + fail_count
    IN  [completed_count |-> done_count,
         failed_count |-> fail_count,
         processed_count |-> processed_count,
         total_files |-> total_files,
         remaining_count |-> total_files - processed_count,
         success_rate |->
             IF processed_count > 0
             THEN Times(Quotient(done_count, processed_count), 100)
             ELSE Quotient(0, 1),
         progress_percentage |->
             IF total_files > 0
             THEN Times(Quotient(processed_count, total_files), 100)
             ELSE Quotient(0, 1)]

\* the dict get_progress_stats returns, without the entries that depend on
\* the clock (elapsed_time, estimated_remaining_time)
GetProgressStats ==
    LET done_count == Cardinality(completed_files)
        fail_count == Cardinality(failed_files)
        processed_count == done_count + fail_count
    IN  [completed_count |-> done_count,
         failed_count |-> fail_count,
         processed_count |-> processed_count,
         total_files |-> total_files,
         remaining_count |-> Max(0, total_files - processed_count),
         success_rate |->
             IF processed_count > 0
             THEN Times(Quotient(done_count, processed_count), 100)
             ELSE Quotient(0, 1),
         progress_percentage |->
             IF total_files > 0
             THEN Times(Quotient(processed_count, total_files), 100)
             ELSE Quotient(0, 1)]

\* a caller asks get_progress_stats(): no lock, no await
GetProgressStatsCall(p) ==
    /\ NextCall(p) /\ ~Busy
    /\ ret' = [op |-> "get_progress_stats", kind |-> "stats",
               stats |-> GetProgressStats] @@ NoRet
    /\ UNCHANGED <<pool, sub, sd, wfc, quota, max_concurrent, batch, manager, ck_file, ck_tmp,
                   ck_lock, ck_waiters, caller, ck_args, ck_foreign, tally>>

StatsInit ==
    /\ PoolInit
    /\ NoCheckpoint
    /\ Uncounted
    /\ completed_files \in SUBSET StatIds
    /\ failed_files \in SUBSET StatIds
    /\ total_files \in 0 .. MaxTotal
    /\ last_save_count = 0
    /\ ck_lock = 0
    /\ ck_waiters = <<>>
    /\ caller = [p \in Callers |-> IdleCaller]
    /\ ret = NoRet

StatsNext ==
    \/ \E p \in Callers : GetProgressStatsCall(p)
    \/ Return

StatsSpec == StatsInit /\ [][StatsNext]_vars

\* C24: get_progress_stats returns processed_count = |completed| +
\* |failed|, remaining_count = max(0, total_files - processed_count), never
\* negative, and progress_percentage = processed_count * 100 / total_files,
\* 0 when total_files is 0, and changes nothing; for two completed files,
\* one failed file and total_files 10 they are 3, 7 and 30.
C24_ProgressStats ==
    [][ret'.op = "get_progress_stats" =>
         LET st == ret'.stats
             n == Cardinality(completed_files) + Cardinality(failed_files)
         IN  /\ st.processed_count = n
             /\ st.remaining_count =
                    (IF total_files > n THEN total_files - n ELSE 0)
             /\ st.remaining_count >= 0
             /\ st.progress_percentage =
                    (IF total_files = 0 THEN <<0, 1>>
                     ELSE Quotient(n * 100, total_files))
             /\ (/\ Cardinality(completed_files) = 2
                 /\ Cardinality(failed_files) = 1
                 /\ total_files = 10)
                  => /\ st.processed_count = 3
                     /\ st.remaining_count = 7
                     /\ st.progress_percentage = <<30, 1>>
             /\ UNCHANGED <<manager, ck_file, ck_tmp, ck_lock, ck_waiters, caller>>]_vars

\* get_progress_stats has answered 3, 7 and 30 for completed {1, 2}, failed
\* {3} and total_files 10
C24_Witness ==
    /\ ret.op = "get_progress_stats"
    /\ completed_files = {1, 2} /\ failed_files = {3} /\ total_files = 10
    /\ ret.stats.processed_count = 3
    /\ ret.stats.remaining_count = 7
    /\ ret.stats.progress_percentage = <<30, 1>>

\* C25: what get_stats reports as success_rate is completed * 100 /
\* max(total_submitted, 1) in every state of the pool: 0 when nothing was
\* submitted, and between 0 and 100 because completed is at most
\* total_submitted.
C25_SuccessRate ==
    ret.op = "get_stats" =>
        LET st == ret.stats
            rate == st.success_rate
        IN  /\ st.completed = completed_count
            /\ st.total_submitted = task_counter
            /\ rate = Quotient(completed_count * 100, Max(task_counter, 1))
            /\ task_counter = 0 => rate = <<0, 1>>
            /\ completed_count <= task_counter
            /\ 0 <= rate[1] /\ rate[1] <= 100 * rate[2]

\* get_stats has reported 50 with one of two tasks completed and the other
\* not
C25_Witness ==
    /\ ret.op = "get_stats"
    /\ task_counter = 2 /\ completed_count = 1
    /\ ret.stats.success_rate = <<50, 1>>

\* C26: get_stats changes neither the registry, the counters, the
\* semaphore nor the tasks and the callers, in whatever state it is
\* called, and it is never kept waiting: it can be called in every state.
C26_GetStatsReadOnly ==
    /\ [][(ret'.op = "get_stats" /\ ret' # ret) =>
            /\ UNCHANGED <<pool, sub, sd, wfc, quota, max_concurrent, batch>>
            /\ ret'.stats.active_tasks = Cardinality(active_tasks)
            /\ ret'.stats.available_slots = sem_value]_vars
    /\ [](ENABLED GetStatsCall)

\* get_stats has answered while a submit_task call was blocked and a
\* task was on its way out
C26_Witness ==
    /\ ret.op = "get_stats"
    /\ \E s \in Submitters : Blocked(s)
    /\ \E t \in TaskIds : task[t].stage = "cancelling"
    /\ ret.stats.active_tasks = max_concurrent

\* C27: the ids submit_task gives out are 0, 1, 2, ... without a gap or a
\* repeat, also when several calls waited for a slot at the same time;
\* calls that were handed a slot get their ids in the order of the
\* hand-over; and task_counter is the number of calls that got a slot and
\* returned.
C27_UniqueIncreasingIds ==
    /\ [](\A t \in BurstIds : task[t].stage # "none" <=> t < task_counter)
    /\ [](task_counter + Cardinality(Handed)
             = (max_concurrent - sem_value) + Released)
    /\ [][task_counter' # task_counter =>
            /\ task_counter' = task_counter + 1
            /\ task[task_counter].stage = "none"
            /\ task'[task_counter].stage = "created"
            /\ \A t \in BurstIds \ {task_counter} :
                  /\ task'[t].stage = "none" <=> task[t].stage = "none"
                  /\ task'[t].stage # "created" \/ task[t].stage = "created"
            /\ Handed # {} =>
                  LET i == CHOOSE j \in Handed : \A h \in Handed : j <= h
                      s == sem_waiters[i].s
                  IN  Blocked(s) /\ sub'[s].pc = "idle"]_vars

\* two calls waited at the same time: one has its id, the other, which
\* has waited since before any slot was released, is still waiting
C27_Witness ==
    /\ task_counter = 2
    /\ Released >= 1
    /\ \E s \in Submitters : Blocked(s) /\ sub[s].rel0 = 0

\* C28: the pool admits up to its capacity: a submit_task call waits only
\* when every slot is taken or another call waits ahead of it, so with
\* more calls than slots and no task finished yet the registry holds as
\* many tasks as calls were made, up to max_concurrent and no less, and it
\* never holds more; and when all the tasks of the run have ended in
\* success, completed is their number and success_rate is 100.
C28_AdmitsUpToCapacity ==
    /\ [][\A s \in Submitters :
            (~Blocked(s) /\ sub'[s].pc = "blocked") =>
               \/ Cardinality(active_tasks) + Cardinality(Handed)
                     = max_concurrent
               \/ Len(sem_waiters) > 0]_vars
    /\ []((\A t \in PeakIds : ~Done(t)) =>
             Cardinality(active_tasks)
                = IF task_counter + Pending < max_concurrent
                  THEN task_counter + Pending ELSE max_concurrent)
    /\ [](Cardinality(active_tasks) <= max_concurrent)
    /\ []((/\ task_counter = quota
           /\ \A t \in PeakIds : Done(t) /\ task[t].outcome = "success") =>
             /\ completed_count = quota
             /\ GetStats.completed = quota
             /\ GetStats.active_tasks = 0
             /\ GetStats.success_rate = <<100, 1>>)

\* more than one task is in flight, as many as the pool has slots, while a
\* call waits for a slot, tasks before them having ended in success
C28_Witness ==
    /\ max_concurrent > 1
    /\ quota > 2 * max_concurrent
    /\ Cardinality(active_tasks) = max_concurrent
    /\ \A t \in active_tasks : task[t].stage = "waiting"
    /\ \E s \in Submitters : Blocked(s)
    /\ completed_count >= 1

\* C30: in every state total_submitted = completed + failed + the tasks
\* cancelled by shutdown + the tasks in the registry; completed counts the
\* tasks that ended in success, failed those that ended in an error or a
\* timeout, timeout those that ended in a timeout, so timeout <= failed,
\* and a cancelled task is counted by none.
C30_CounterConservation ==
    LET Cancelled ==
            {t \in TaskIds : Done(t) /\ task[t].outcome = "cancelled"}
    IN
    /\ task_counter = completed_count + failed_count
                         + Cardinality(Cancelled) + Cardinality(active_tasks)
    /\ completed_count =
           Cardinality({t \in TaskIds : task[t].outcome = "success"})
    /\ failed_count =
           Cardinality({t \in TaskIds :
                           task[t].outcome \in {"task_error", "timeout_error"}})
    /\ timeout_count =
           Cardinality({t \in TaskIds : task[t].outcome = "timeout_error"})
    /\ timeout_count <= failed_count

\* C31: the semaphore and the registry agree.  In every state the value of
\* the semaphore, the entries of active_tasks and the slots handed to
\* submit_task calls that have not resumed add up to max_concurrent; so
\* whenever no submit_task call is under way, available_slots plus
\* active_tasks of get_stats is max_concurrent, also after timeouts, errors
\* and shutdown.
C31_SlotsAndRegistryAgree ==
    /\ sem_value + Cardinality(active_tasks) + Cardinality(Handed)
           = max_concurrent
    /\ (\A s \in Submitters : ~Blocked(s)) =>
           GetStats.available_slots + GetStats.active_tasks
               = GetStats.max_concurrent

\* No call is under way, shutdown has run and returned, one task has ended
\* in a timeout and another was cancelled by shutdown.
C31_Witness ==
    /\ \A s \in Submitters : ~Blocked(s)
    /\ sd.calls >= 1
    /\ sd.pc = "idle"
    /\ \E t \in TaskIds : Done(t) /\ task[t].outcome = "timeout_error"
    /\ \E t \in TaskIds : Done(t) /\ task[t].by_shutdown
    /\ GetStats.available_slots + GetStats.active_tasks
           = GetStats.max_concurrent

\* C32: a save_checkpoint call that raises leaves at self.checkpoint_file
\* the record of the last successful save: the step that raises changes
\* nothing there, and a record that the call has removed from there by then
\* is there again.
C32_FailedSaveKeepsRecord ==
    [][\A p \in Callers :
         (/\ caller[p].op = "save_checkpoint"
          /\ caller'[p] = IdleCaller
          /\ ret'.op = "save_checkpoint"
          /\ ret'.kind = "raised") =>
            ck_file' = IF /\ caller[p].pc = "save_removed"
                          /\ IsJson(caller[p].prev)
                       THEN caller[p].prev
                       ELSE ck_file]_vars

\* C33: a load_checkpoint that returns two empty sets because the file
\* could not be read or parsed leaves completed_files, failed_files and
\* total_files as they were; so on a manager fresh from __init__
\* should_skip_file skips no file afterwards, as the empty sets say.
C33_FailedLoadChangesNothing ==
    [][\A p \in Callers :
         (/\ ret'.op = "load_checkpoint"
          /\ LoadRaise(p) \/ LoadAssign(p)
          /\ caller[p].pc = "load_close" => ~Readable(caller[p].state))
         => /\ ret'.completed = {} /\ ret'.failed = {}
            /\ UNCHANGED <<completed_files, failed_files, total_files>>
            /\ Fresh => \A id \in Ids : ~ShouldSkipFile(id, FALSE)']_vars

\* -------------------------------------- update_progress on several files
\* A run that only calls update_progress, on the files StatIds, as
\* test_update_progress does on a manager fresh from __init__; the file at
\* self.checkpoint_file is what an earlier run left.
UpdateInit ==
    /\ PoolInit
    /\ ManagerInit
    /\ ck_file \in InitialFiles
    /\ ck_tmp = Absent
    /\ ck_args = NoArgs
    /\ ck_foreign = (ck_file # Absent)
    /\ auto_save_interval \in 1 .. (AutoSaveInterval + 1)
    /\ ck_unsaved = None

UpdateNext ==
    \/ \E p \in Callers, id \in StatIds, st \in Statuses, auto \in BOOLEAN :
           UpdateProgressFree(p, id, st, auto)
    \/ \E p \in Callers, id \in StatIds, force \in BOOLEAN :
           ShouldSkip(p, id, force)
    \/ Return

UpdateSpec == UpdateInit /\ [][UpdateNext]_vars

\* C36: update_progress(id, status, auto_save = False) returns having
\* changed nothing but the membership of id in completed_files and
\* failed_files: the checkpoint file and the temporary file are neither
\* written nor removed, last_save_count and total_files stay, and every
\* other file is in the sets it was in.
C36_UpdateWithoutSave ==
    [][UpdateSeen =>
       \A id \in Ids \cup StatIds, st \in Statuses :
          UpdateStep(id, st, FALSE) =>
             /\ ret'.op = "update_progress" /\ ret'.kind = "ok"
             /\ UNCHANGED <<ck_file, ck_tmp, last_save_count, total_files>>
             /\ completed_files' \ {id} = completed_files \ {id}
             /\ failed_files' \ {id} = failed_files \ {id}]_vars

\* An update_progress call has returned although the interval is reached,
\* so it was made with auto_save = False; there is a checkpoint file, and
\* other files than the one recorded are in both sets.
C36_Witness ==
    /\ ret.op = "update_progress" /\ ret.kind = "ok"
    /\ ret.status = "failed" /\ ret.was = "completed"
    /\ Cardinality(completed_files) + Cardinality(failed_files)
           - last_save_count >= auto_save_interval
    /\ IsJson(ck_file)
    /\ completed_files \ {ret.id} # {}
    /\ failed_files \ {ret.id} # {}

\* --------------------------------------------------- process_images_batch
\* process_images_batch (src/batch_processing.py) is one coroutine: it
\* makes a pool, submits one process_single_image coroutine per image to
\* process and then polls its tasks until all are collected.  It runs from
\* one suspension to the next without any task running in between; it is
\* submitter 1 of the pool.  Images are identified by numbers, in the order
\* in which find_images lists them; the result of a task is identified by
\* the outcome the pool's wrapper gave it.

\* What a process_single_image coroutine does: it returns a dict, also
\* when the analysis or the saving failed, since it catches every Exception
\* (lines 51-76, and analyze_image lines 184-199); cancelled inside the bare
\* "except:" of analyze_image (line 154) it swallows the CancelledError and
\* goes on to return, with the error of the analysis and without saving;
\* cancelled anywhere else ("value") it ends with the CancelledError.
ImageKinds == {"value", "stubborn"}

\* the images find_images finds in root_dir
Images == 1 .. MaxBurst

\* The stems of the images' names: every image has its own, or the first
\* two images differ only in their extension (a.jpg, a.png) and share one.
OwnStems == [i \in Images |-> i]

\* os.path.splitext(img_path)[0] + '.json': the output file of image i,
\* named after the stem
JsonPath(i) == root_dir.stem[i]

\* all_images filtered to tasks_to_process: the valid images whose
\* output file does not exist, or all of them with force_rerun
TasksToProcess(valid, outputs, force_rerun) ==
    LET Keep(i) == i \in valid /\ (~(JsonPath(i) \in outputs) \/ force_rerun)
    IN  SelectSeq([i \in Images |-> i], Keep)

\* the image task t works on: task ids are given in the order of the list
ImageOf(t) == orch.todo[t + 1]

\* pending_tasks: every task submitted is put there at once and stays
\* until it is collected
pending_tasks == {t \in BurstIds : task[t].stage # "none"} \ orch.collected

\* the coroutine process_images_batch is running, not suspended
OrchRunning == orch.pc = "run" /\ sub[1].pc # "blocked"

\* the event loop is free for the tasks
Suspended == ~OrchRunning

\* a step of the batch run leaves the checkpoint manager alone
BatchStep ==
    /\ ret' = NoRet
    /\ UNCHANGED <<ck_file, ck_tmp, manager, ck_lock, ck_waiters, caller, ck_args,
                   ck_foreign, tally>>

\* BatchTaskPool(max_concurrent = concurrent_limit): a pool with no task
NewPool ==
    /\ active_tasks' = {}
    /\ sem_value' = max_concurrent
    /\ sem_waiters' = <<>>
    /\ task_counter' = 0
    /\ completed_count' = 0
    /\ failed_count' = 0
    /\ timeout_count' = 0
    /\ task' = [t \in PeakIds |-> NoTask]
    /\ sub' = [s \in Submitters |-> IdleSubmitter]

\* process_images_batch is called: the pool is made, the images are
\* filtered, and with nothing to process it returns 0 at once
ProcessImagesBatch(force_rerun) ==
    /\ orch.pc = "idle"
    /\ NewPool
    /\ LET todo == TasksToProcess(root_dir.valid, root_dir.outputs,
                                  force_rerun)
       IN  /\ orch' = [IdleOrch EXCEPT
                         !.pc = IF todo = <<>> THEN "done" ELSE "run",
                         !.force = force_rerun,
                         !.todo = todo]
           /\ quota' = Len(todo)
    /\ UNCHANGED <<sd, wfc, max_concurrent, root_dir>>
    /\ BatchStep

\* the results appended in one pass over pending_tasks: one for every task
\* of fin, in the order of the dict
RECURSIVE ResultsOf(_)
ResultsOf(fin) ==
    IF fin = {} THEN <<>>
    ELSE LET t == CHOOSE x \in fin : \A y \in fin : x <= y
         IN  <<[task_id |-> t, path |-> ImageOf(t),
                status |-> task[t].outcome]>> \o ResultsOf(fin \ {t})

\* CollectRound that appends nothing
CollectRoundDrops ==
    /\ orch.pc \in {"run", "sleeping"}
    /\ sub[1].pc = "idle"
    /\ task_counter = quota
    /\ LET fin == {t \in pending_tasks : task[t].stage = "done"}
       IN  orch' = [orch EXCEPT
                      !.collected = @ \cup fin,
                      !.pc = IF pending_tasks \ fin = {} THEN "done"
                             ELSE "sleeping"]
    /\ UNCHANGED <<pool, sub, sd, wfc, quota, max_concurrent, root_dir>>
    /\ BatchStep

\* One round of the loop "while pending_tasks", made when the last image
\* is submitted and whenever asyncio.sleep(0.1) is over: the tasks that
\* are done are awaited, which does not suspend, and their results
\* appended; they are popped; with tasks left the coroutine sleeps, else
\* the loop ends.
CollectRound ==
    /\ orch.pc \in {"run", "sleeping"}
    /\ sub[1].pc = "idle"
    /\ task_counter = quota
    /\ LET fin == {t \in pending_tasks : task[t].stage = "done"}
       IN  orch' = [orch EXCEPT
                      !.results = @ \o ResultsOf(fin),
                      !.collected = @ \cup fin,
                      !.pc = IF pending_tasks \ fin = {} THEN "done"
                             ELSE "sleeping"]
    /\ UNCHANGED <<pool, sub, sd, wfc, quota, max_concurrent, root_dir>>
    /\ BatchStep

\* process_single_image of task t has analysed its image and saves the
\* result: "async with aiofiles.open(json_path, 'w')" hands the open to a
\* worker thread and the coroutine waits for it (t is in orch.saving).  (An image whose output
\* file exists is not analysed again, or with force_rerun written over,
\* which leaves the file where it is.)  A coroutine that is here is past
\* the "except:" of analyze_image: cancelled, it ends.
OpenOutput(t) ==
    /\ Suspended
    /\ task[t].stage = "waiting"
    /\ task[t].comp = "running"
    /\ task[t].kind = "value"
    /\ t \notin orch.saving
    /\ ~(JsonPath(ImageOf(t)) \in root_dir.outputs)
    /\ orch' = [orch EXCEPT !.saving = @ \cup {t}]
    /\ UNCHANGED <<pool, sub, sd, wfc, quota, max_concurrent, root_dir>>
    /\ BatchStep

\* The worker thread makes the output file of task t, which is the output
\* file of every image of the same stem.  The thread does not wait for the
\* event loop, and once it runs nothing stops it: it makes the file also
\* when the coroutine that waited for it has been cancelled since, and
\* when its task is done.  (The job of a coroutine cancelled before a
\* thread has taken it is dropped: then this step never happens.)
WriteOutput(t) ==
    /\ t \in orch.saving
    /\ root_dir' = [root_dir EXCEPT !.outputs = @ \cup {JsonPath(ImageOf(t))}]
    /\ orch' = [orch EXCEPT !.saving = @ \ {t}]
    /\ UNCHANGED <<pool, sub, sd, wfc, quota, max_concurrent>>
    /\ BatchStep

\* The coroutine of task t returns its dict; one that saves returns when
\* the worker thread is through.
ImageEnd(t) == Suspended /\ t \notin orch.saving /\ CompEnd(t)

\* The process ends, process_images_batch having returned or not: the pool
\* and the tasks are gone, the files stay.
ProcessEnds ==
    /\ orch.pc # "idle"
    /\ orch' = IdleOrch
    /\ quota' = 0
    /\ NewPool
    /\ UNCHANGED <<sd, wfc, max_concurrent, root_dir>>
    /\ BatchStep

\* a directory of images, any of them valid, none processed yet
BatchInit ==
    /\ max_concurrent = MaxConcurrent
    /\ PoolMade
    /\ quota = 0
    /\ orch = IdleOrch
    /\ root_dir \in [valid : SUBSET Images, outputs : {{}}, stem : {OwnStems, [OwnStems EXCEPT ![2] = 1]}]
    /\ root_dir.stem # OwnStems => {1, 2} \subseteq root_dir.valid
    /\ ManagerInit /\ NoCheckpoint /\ Uncounted

BatchNext ==
    \/ \E force_rerun \in BOOLEAN : ProcessImagesBatch(force_rerun)
    \/ \E k \in ImageKinds : OrchRunning /\ SubmitTaskFree(1, k)
    \/ \E k \in ImageKinds : OrchRunning /\ SubmitTaskBlock(1, k)
    \/ SubmitTaskResume(1)
    \/ CollectRound
    \/ \E t \in BurstIds : Suspended /\ TaskStart(t)
    \/ \E t \in BurstIds : ImageEnd(t)
    \/ \E t \in BurstIds : Suspended /\ WrapperResume(t)
    \/ \E t \in BurstIds : Suspended /\ Timeout(t)
    \/ \E t \in BurstIds : Suspended /\ CompCancelled(t)
    \/ \E t \in BurstIds : Suspended /\ CompIgnoresCancel(t)
    \/ \E t \in BurstIds : Suspended /\ CompEndLate(t)
    \/ \E t \in BurstIds : Suspended /\ WrapperResumeLate(t)
    \/ \E t \in BurstIds : OpenOutput(t)
    \/ \E t \in BurstIds : WriteOutput(t)

\* The valid images are the first ones of the list, each with a stem of
\* its own.  To the loop of one call of process_images_batch every
\* directory is like one of these: the invalid images take no part in it,
\* wherever they are in the list, and after the filter the call does not
\* look at the output files, which is all the stems are for.
FirstValidInit ==
    /\ BatchInit
    /\ \E n \in 0 .. MaxBurst : root_dir.valid = 1 .. n
    /\ root_dir.stem = OwnStems

\* The event loop runs every coroutine that can go on, and every coroutine
\* of ImageKinds comes to an end.
BatchFairness ==
    /\ WF_vars(\E k \in ImageKinds :
                  OrchRunning /\ (\/ SubmitTaskFree(1, k)
                                  \/ SubmitTaskBlock(1, k)))
    /\ WF_vars(SubmitTaskResume(1))
    /\ WF_vars(CollectRound)
    /\ \A t \in BurstIds :
           /\ WF_vars(Suspended /\ TaskStart(t))
           /\ WF_vars(ImageEnd(t) \/ (Suspended /\ Timeout(t)))
           /\ WF_vars(Suspended /\ WrapperResume(t))
           /\ WF_vars(Suspended /\ CompCancelled(t))
           /\ WF_vars(Suspended /\ CompIgnoresCancel(t))
           /\ WF_vars(Suspended /\ CompEndLate(t))
           /\ WF_vars(Suspended /\ WrapperResumeLate(t))

\* one call of process_images_batch
FairBatchSpec == FirstValidInit /\ [][BatchNext]_vars /\ BatchFairness

\* runs of process_images_batch on the same directory, one after the other
ResumeNext == BatchNext \/ ProcessEnds

ResumeSpec == BatchInit /\ [][ResumeNext]_vars

\* C34: the loop of process_images_batch, for any number N of images to
\* process and any capacity, also N above the capacity, gets all N
\* submitted although it collects no result before that, then appends
\* exactly one result for every task submitted and ends with pending_tasks
\* empty.
C34_BatchTerminates ==
    /\ [](Len(orch.results) > 0 => task_counter = quota)
    /\ [](\A i, j \in 1 .. Len(orch.results) :
             /\ orch.results[i].task_id \in 0 .. (task_counter - 1)
             /\ i # j => orch.results[i].task_id # orch.results[j].task_id)
    /\ [](orch.pc = "done" =>
             /\ task_counter = Len(orch.todo)
             /\ Len(orch.results) = task_counter
             /\ pending_tasks = {})
    /\ (orch.pc = "run") ~> (orch.pc = "done" /\ task_counter = quota)

\* A run of more images than the pool has slots has ended with a result for
\* every image, one of them a timeout.
C34_Witness ==
    /\ orch.pc = "done"
    /\ Len(orch.todo) > max_concurrent
    /\ Len(orch.results) = Len(orch.todo)
    /\ \E i \in 1 .. Len(orch.results) :
          orch.results[i].status = "timeout_error"
    /\ \E i \in 1 .. Len(orch.results) : orch.results[i].status = "success"

\* the images of the list q
Range(q) == {q[i] : i \in 1 .. Len(q)}

\* C35: a run of process_images_batch, also one on a directory that
\* earlier runs have worked on, submits to the pool exactly the valid images
\* that have no output file when it starts, each once, and with force_rerun
\* every valid image; and these are the images still to be processed: an
\* image that a run without force_rerun has failed on (its task ended
\* otherwise than in success; the image has a stem of its own) has no
\* output file, so that the next run submits it again.
C35_ResumeSubmitsUnprocessed ==
    /\ [][\A force_rerun \in BOOLEAN :
            ProcessImagesBatch(force_rerun) =>
               /\ Range(orch'.todo) =
                     IF force_rerun THEN root_dir.valid
                     ELSE {i \in root_dir.valid :
                             ~(JsonPath(i) \in root_dir.outputs)}
               /\ Cardinality(Range(orch'.todo)) = Len(orch'.todo)
               /\ quota' = Len(orch'.todo)]_vars
    /\ [](task_counter <= Len(orch.todo))
    /\ [](orch.pc \in {"sleeping", "done"} =>
             {ImageOf(t) : t \in 0 .. (task_counter - 1)} = Range(orch.todo))
    /\ [](\A i \in 1 .. Len(orch.results) :
             (/\ ~orch.force
              /\ orch.results[i].status # "success"
              /\ \A j \in Images \ {orch.results[i].path} :
                    root_dir.stem[j] # root_dir.stem[orch.results[i].path]) =>
                ~(JsonPath(orch.results[i].path) \in root_dir.outputs))
====
